---- MODULE Spec2Model ----
(***************************************************************************)
(* The PL language toolchain of the repository: Lexer, Parser, Transpiler, *)
(* PLRuntime/Environment, PLCompiler (compile, execute, executeAsync) and   *)
(* PLREPL.  Source text is a sequence of one-character strings; positions  *)
(* are 0-based as in the code (At(src, p) is source[p]).                   *)
(***************************************************************************)
EXTENDS Integers, Sequences, FiniteSets, TLC

VARIABLES
    source,     \* front end: the source text handed to the Lexer
    phase,      \* front end: "fresh" | "lexed" | "parsed"
    lexed,      \* front end: outcome of Lexer.tokenize on source
    parsed,     \* front end: outcome of Parser.parse on the tokens
    apiCall,    \* compiler API: the latest compile/execute/executeAsync call and its outcome
    history,    \* PLREPL.history of each session
    context,    \* PLREPL.context of each session (a Map name -> value)
    last,       \* what the latest operation on each session gave back to its caller
    oplog,      \* the operations performed on each session, in call order
    hostBlocked, \* the single host thread is inside a call that never returns
    environment, \* runtime: the innermost Environment of a chain (with its parents)
    envCall     \* runtime: the latest call on environment, the chain before it, its outcome

vars == <<source, phase, lexed, parsed, apiCall, history, context, last, oplog, hostBlocked,
          environment, envCall>>

frontVars == <<source, phase, lexed, parsed>>
apiVars == <<apiCall>>
replVars == <<history, context, last, oplog>>
envVars == <<environment, envCall>>

(***************************************************************************)
(* Text helpers                                                            *)
(***************************************************************************)
At(src, p) == src[p + 1]

Lower ==
    [c \in {"A","B","C","D","E","F","G","H","I","J","K","L","M","N","O","P","Q","R","S","T","U","V","W","X","Y","Z"} |->
        CASE c = "A" -> "a" [] c = "B" -> "b" [] c = "C" -> "c" [] c = "D" -> "d"
          [] c = "E" -> "e" [] c = "F" -> "f" [] c = "G" -> "g" [] c = "H" -> "h"
          [] c = "I" -> "i" [] c = "J" -> "j" [] c = "K" -> "k" [] c = "L" -> "l"
          [] c = "M" -> "m" [] c = "N" -> "n" [] c = "O" -> "o" [] c = "P" -> "p"
          [] c = "Q" -> "q" [] c = "R" -> "r" [] c = "S" -> "s" [] c = "T" -> "t"
          [] c = "U" -> "u" [] c = "V" -> "v" [] c = "W" -> "w" [] c = "X" -> "x"
          [] c = "Y" -> "y" [] c = "Z" -> "z"]

isLetter(c) ==
    \/ c \in {"a","b","c","d","e","f","g","h","i","j","k","l","m","n","o","p","q","r","s","t","u","v","w","x","y","z"}
    \/ c \in DOMAIN Lower

isDigit(c) == c \in {"0","1","2","3","4","5","6","7","8","9"}

DigitValue(c) ==
    CASE c = "0" -> 0 [] c = "1" -> 1 [] c = "2" -> 2 [] c = "3" -> 3 [] c = "4" -> 4
      [] c = "5" -> 5 [] c = "6" -> 6 [] c = "7" -> 7 [] c = "8" -> 8 [] c = "9" -> 9

toLowerCase(text) == [i \in 1..Len(text) |-> IF text[i] \in DOMAIN Lower THEN Lower[text[i]] ELSE text[i]]

\* A thrown Error: its class name and its message (the message as the parts the
\* code interpolates: a text, a detail, and the line / column when it names them).
Err(name, text, detail, line, column) ==
    [name |-> name, text |-> text, detail |-> detail, line |-> line, column |-> column]

NoPos == 0

\* `const x = e; ...`: the rest of a function body F applied to the value of e.
Bind(x, F(_)) == F(x)

(***************************************************************************)
(* Lexer                                                                   *)
(***************************************************************************)
Token(type, value, line, column) == [type |-> type, value |-> value, line |-> line, column |-> column]

Null == [t |-> "null"]
Str(chars) == [t |-> "str", s |-> chars]
Num(int, frac, exp) == [t |-> "num", int |-> int, frac |-> frac, exp |-> exp]
Bool(b) == [t |-> "bool", b |-> b]

\* A lexer that counts columns from 0.
LexerNewZeroBased == [position |-> 0, line |-> 1, column |-> 0]
LexerNew == [position |-> 0, line |-> 1, column |-> 1]

keywords ==
    [k \in { <<"i","f">>, <<"e","l","s","e">>, <<"w","h","i","l","e">>, <<"f","o","r">>,
             <<"f","u","n","c","t","i","o","n">>, <<"r","e","t","u","r","n">>,
             <<"v","a","r">>, <<"c","o","n","s","t">>, <<"t","r","u","e">>,
             <<"f","a","l","s","e">>, <<"n","u","l","l">>, <<"b","r","e","a","k">>,
             <<"c","o","n","t","i","n","u","e">>, <<"s","w","i","t","c","h">>,
             <<"c","a","s","e">>, <<"d","e","f","a","u","l","t">>,
             <<"a","n","d">>, <<"o","r">>, <<"n","o","t">> } |->
        CASE k = <<"i","f">> -> "IF"
          [] k = <<"e","l","s","e">> -> "ELSE"
          [] k = <<"w","h","i","l","e">> -> "WHILE"
          [] k = <<"f","o","r">> -> "FOR"
          [] k = <<"f","u","n","c","t","i","o","n">> -> "FUNCTION"
          [] k = <<"r","e","t","u","r","n">> -> "RETURN"
          [] k = <<"v","a","r">> -> "VAR"
          [] k = <<"c","o","n","s","t">> -> "CONST"
          [] k = <<"t","r","u","e">> -> "TRUE"
          [] k = <<"f","a","l","s","e">> -> "FALSE"
          [] k = <<"n","u","l","l">> -> "NULL"
          [] k = <<"b","r","e","a","k">> -> "BREAK"
          [] k = <<"c","o","n","t","i","n","u","e">> -> "CONTINUE"
          [] k = <<"s","w","i","t","c","h">> -> "SWITCH"
          [] k = <<"c","a","s","e">> -> "CASE"
          [] k = <<"d","e","f","a","u","l","t">> -> "DEFAULT"
          [] k = <<"a","n","d">> -> "AND"
          [] k = <<"o","r">> -> "OR"
          [] k = <<"n","o","t">> -> "NOT"]

singleCharTokens ==
    [c \in {"+","-","*","/","%","^","=","<",">","(",")","{","}","[","]",",",".",":",";"} |->
        CASE c = "+" -> "PLUS" [] c = "-" -> "MINUS" [] c = "*" -> "MULTIPLY"
          [] c = "/" -> "DIVIDE" [] c = "%" -> "MODULO" [] c = "^" -> "POWER"
          [] c = "=" -> "ASSIGN" [] c = "<" -> "LESS_THAN" [] c = ">" -> "GREATER_THAN"
          [] c = "(" -> "LPAREN" [] c = ")" -> "RPAREN" [] c = "{" -> "LBRACE"
          [] c = "}" -> "RBRACE" [] c = "[" -> "LBRACKET" [] c = "]" -> "RBRACKET"
          [] c = "," -> "COMMA" [] c = "." -> "DOT" [] c = ":" -> "COLON"
          [] c = ";" -> "SEMICOLON"]

\* The two-character operators, matched with one character of lookahead.
twoCharTokens ==
    [p \in { <<"=","=">>, <<"!","=">>, <<"<","=">>, <<">","=">>, <<"-",">">>, <<"+","=">>, <<"-","=">> } |->
        CASE p = <<"=","=">> -> "EQUAL" [] p = <<"!","=">> -> "NOT_EQUAL"
          [] p = <<"<","=">> -> "LESS_EQUAL" [] p = <<">","=">> -> "GREATER_EQUAL"
          [] p = <<"-",">">> -> "ARROW" [] p = <<"+","=">> -> "PLUS_ASSIGN"
          [] p = <<"-","=">> -> "MINUS_ASSIGN"]

\* Lexer.peek: the character after the current one, '' at the end.
lexPeek(src, st) == IF st.position + 1 < Len(src) THEN At(src, st.position + 1) ELSE ""

step(st, n) == [st EXCEPT !.position = @ + n, !.column = @ + n]

RECURSIVE skipWhitespace(_, _)
skipWhitespace(src, st) ==
    IF st.position < Len(src) /\ At(src, st.position) \in {" ", "\t", "\r"}
    THEN skipWhitespace(src, step(st, 1))
    ELSE st

escapeChar(c) ==
    CASE c = "n" -> "\n" [] c = "t" -> "\t" [] c = "r" -> "\r"
      [] OTHER -> c

\* The while loop of readString: st is the lexer after the loop, value the text read.
RECURSIVE readStringLoop(_, _, _, _)
readStringLoop(src, quote, st, value) ==
    IF st.position < Len(src) /\ At(src, st.position) # quote
    THEN IF At(src, st.position) = "\\"
         THEN LET st1 == step(st, 1)
                  v1 == IF st1.position < Len(src)
                        THEN Append(value, escapeChar(At(src, st1.position)))
                        ELSE value
              IN readStringLoop(src, quote, [st1 EXCEPT !.position = @ + 1], v1)
         ELSE LET c == At(src, st.position)
                  st1 == IF c = "\n"
                         THEN [st EXCEPT !.line = @ + 1, !.column = 1]
                         ELSE [st EXCEPT !.column = @ + 1]
              IN readStringLoop(src, quote, [st1 EXCEPT !.position = @ + 1], Append(value, c))
    ELSE [st |-> st, value |-> value]

readString(src, st) ==
    Bind(readStringLoop(src, At(src, st.position), step(st, 1), <<>>), LAMBDA r :
        IF r.st.position >= Len(src)
        THEN [ok |-> FALSE, err |-> Err("Error", "Unterminated string", <<>>, st.line, st.column)]
        ELSE [ok |-> TRUE, st |-> step(r.st, 1),
              token |-> Token("STRING", Str(r.value), st.line, st.column)])

\* A maximal run of digits from st: the lexer after it and the digits read.
RECURSIVE readDigits(_, _, _)
readDigits(src, st, value) ==
    IF st.position < Len(src) /\ isDigit(At(src, st.position))
    THEN readDigits(src, step(st, 1), Append(value, At(src, st.position)))
    ELSE [st |-> st, value |-> value]

RECURSIVE digitsToNat(_)
digitsToNat(ds) ==
    IF ds = <<>> THEN 0 ELSE 10 * digitsToNat(SubSeq(ds, 1, Len(ds) - 1)) + DigitValue(ds[Len(ds)])

\* The fraction digits without their trailing zeros (1.50 and 1.5 are one value).
RECURSIVE stripZeros(_)
stripZeros(ds) ==
    IF ds # <<>> /\ ds[Len(ds)] = "0" THEN stripZeros(SubSeq(ds, 1, Len(ds) - 1)) ELSE ds

\* parseFloat on the text readNumber collects: integer digits, an optional
\* fraction, an optional exponent; an exponent marker without digits is ignored.
parseFloat(int, frac, sign, exp) ==
    Num(digitsToNat(int), stripZeros(frac),
        IF exp = <<>> THEN 0 ELSE IF sign = "-" THEN 0 - digitsToNat(exp) ELSE digitsToNat(exp))

\* Is the character at st one of chars?
charIn(src, st, chars) == st.position < Len(src) /\ At(src, st.position) \in chars

readNumber(src, st) ==
    Bind(readDigits(src, st, <<>>), LAMBDA i :
    Bind(IF charIn(src, i.st, {"."}) THEN readDigits(src, step(i.st, 1), <<>>)
         ELSE [st |-> i.st, value |-> <<>>], LAMBDA f :
    Bind(charIn(src, f.st, {"e", "E"}), LAMBDA hasExp :
    Bind(IF hasExp THEN step(f.st, 1) ELSE f.st, LAMBDA e0 :
    Bind(hasExp /\ charIn(src, e0, {"+", "-"}), LAMBDA hasSign :
    Bind(IF hasSign THEN At(src, e0.position) ELSE "+", LAMBDA sign :
    Bind(IF hasExp THEN readDigits(src, IF hasSign THEN step(e0, 1) ELSE e0, <<>>)
         ELSE [st |-> e0, value |-> <<>>], LAMBDA x :
        [ok |-> TRUE, st |-> x.st,
         token |-> Token("NUMBER", parseFloat(i.value, f.value, sign, x.value),
                         st.line, st.column)])))))))

RECURSIVE readWord(_, _, _)
readWord(src, st, value) ==
    IF st.position < Len(src)
       /\ (isLetter(At(src, st.position)) \/ isDigit(At(src, st.position)) \/ At(src, st.position) = "_")
    THEN readWord(src, step(st, 1), Append(value, At(src, st.position)))
    ELSE [st |-> st, value |-> value]

readIdentifier(src, st) ==
    Bind(readWord(src, st, <<>>), LAMBDA r :
    Bind(toLowerCase(r.value), LAMBDA low :
        [ok |-> TRUE, st |-> r.st,
         token |-> Token(IF low \in DOMAIN keywords THEN keywords[low] ELSE "IDENTIFIER",
                         Str(r.value), st.line, st.column)]))

RECURSIVE readCommentLoop(_, _, _)
readCommentLoop(src, st, value) ==
    IF st.position < Len(src) /\ At(src, st.position) # "\n"
    THEN readCommentLoop(src, step(st, 1), Append(value, At(src, st.position)))
    ELSE [st |-> st, value |-> value]

readComment(src, st) ==
    Bind(readCommentLoop(src, step(st, 2), <<"/", "/">>), LAMBDA r :
        [ok |-> TRUE, st |-> r.st, token |-> Token("COMMENT", Str(r.value), st.line, st.column)])

\* getNextToken after its skipWhitespace: st is at a character of the source.
tokenAt(src, st) ==
    Bind(At(src, st.position), LAMBDA char :
    Bind(<<char, lexPeek(src, st)>>, LAMBDA pair :
       CASE char = "\n" ->
              [ok |-> TRUE, st |-> [position |-> st.position + 1, line |-> st.line + 1, column |-> 1],
               token |-> Token("NEWLINE", Str(<<"\n">>), st.line, st.column)]
         [] char \in {"\"", "'"} -> readString(src, st)
         [] isDigit(char) -> readNumber(src, st)
         [] isLetter(char) \/ char = "_" -> readIdentifier(src, st)
         [] pair = <<"/", "/">> -> readComment(src, st)
         [] pair \in DOMAIN twoCharTokens ->
              [ok |-> TRUE, st |-> step(st, 2),
               token |-> Token(twoCharTokens[pair], Str(pair), st.line, st.column)]
         [] char \in DOMAIN singleCharTokens ->
              [ok |-> TRUE, st |-> step(st, 1),
               token |-> Token(singleCharTokens[char], Str(<<char>>), st.line, st.column)]
         [] OTHER ->
              [ok |-> FALSE, err |-> Err("Error", "Unexpected character", <<char>>, st.line, st.column)]))

getNextToken(src, st0) ==
    Bind(skipWhitespace(src, st0), LAMBDA st :
        IF st.position >= Len(src)
        THEN [ok |-> TRUE, st |-> st, token |-> Token("EOF", Null, st.line, st.column)]
        ELSE tokenAt(src, st))

\* The while loop of tokenize, then the push of the final EOF token.
RECURSIVE tokenizeLoop(_, _, _)
tokenizeLoop(src, st, tokens) ==
    IF st.position < Len(src)
    THEN Bind(getNextToken(src, st), LAMBDA r :
             IF ~r.ok THEN r
             ELSE tokenizeLoop(src, r.st,
                               IF r.token.type # "COMMENT" THEN Append(tokens, r.token) ELSE tokens))
    ELSE [ok |-> TRUE, st |-> st, tokens |-> tokens]

tokenize(src) ==
    Bind(tokenizeLoop(src, LexerNew, <<>>), LAMBDA r :
        IF ~r.ok THEN r
        ELSE [ok |-> TRUE, tokens |-> Append(r.tokens, Token("EOF", Null, r.st.line, r.st.column))])

(***************************************************************************)
(* Parser.  A parsing function gives Ok(node, pos) (pos is Parser.position *)
(* after it), Fail(err) when it throws, or Hang when it never returns.     *)
(***************************************************************************)
Ok(node, pos) == [k |-> "ok", node |-> node, pos |-> pos]
Fail(err) == [k |-> "err", err |-> err]
Hang == [k |-> "hang"]

Undefined == [type |-> "undefined"]

peek(toks, pos) == toks[pos + 1]
previous(toks, pos) == toks[pos]
isAtEnd(toks, pos) == peek(toks, pos).type = "EOF"
check(toks, pos, type) == ~isAtEnd(toks, pos) /\ peek(toks, pos).type = type
checkAny(toks, pos, types) == \E t \in types : check(toks, pos, t)
advance(toks, pos) == IF ~isAtEnd(toks, pos) THEN pos + 1 ELSE pos
\* match(...types): the position after it; it matched iff the position moved.
match(toks, pos, types) == IF checkAny(toks, pos, types) THEN advance(toks, pos) ELSE pos
\* `const r = f(); rest`: what f throws (or its never returning) ends the
\* caller too; otherwise the rest of the caller F runs on the result.
Then(r, F(_)) == IF r.k # "ok" THEN r ELSE F(r)

consume(toks, pos, type, message) ==
    IF check(toks, pos, type)
    THEN Ok(previous(toks, advance(toks, pos)), advance(toks, pos))
    ELSE Fail(Err("Error", message, <<>>, peek(toks, pos).line, peek(toks, pos).column))

identifier(toks, pos) ==
    Then(consume(toks, pos, "IDENTIFIER", "Expect identifier"), LAMBDA c :
        Ok([type |-> "Identifier", name |-> c.node.value,
            line |-> c.node.line, column |-> c.node.column], c.pos))

RECURSIVE skipNewlines(_, _)
skipNewlines(toks, pos) ==
    IF check(toks, pos, "NEWLINE") THEN skipNewlines(toks, advance(toks, pos)) ELSE pos

BinaryLevels == 6
\* The token types and the node type of the six left-associative levels:
\* 1 logicalOr, 2 logicalAnd, 3 equality, 4 comparison, 5 term, 6 factor.
\* The levels with the additive and the multiplicative operators exchanged
\* (term matching * / % and factor matching + -).
levelTypesExchanged(level) ==
    CASE level = 1 -> {"OR"}
      [] level = 2 -> {"AND"}
      [] level = 3 -> {"EQUAL", "NOT_EQUAL"}
      [] level = 4 -> {"GREATER_THAN", "GREATER_EQUAL", "LESS_THAN", "LESS_EQUAL"}
      [] level = 5 -> {"MULTIPLY", "DIVIDE", "MODULO"}
      [] level = 6 -> {"PLUS", "MINUS"}
levelTypes(level) ==
    CASE level = 1 -> {"OR"}
      [] level = 2 -> {"AND"}
      [] level = 3 -> {"EQUAL", "NOT_EQUAL"}
      [] level = 4 -> {"GREATER_THAN", "GREATER_EQUAL", "LESS_THAN", "LESS_EQUAL"}
      [] level = 5 -> {"PLUS", "MINUS"}
      [] level = 6 -> {"MULTIPLY", "DIVIDE", "MODULO"}
levelNode(level) == IF level <= 2 THEN "LogicalExpression" ELSE "BinaryExpression"

\* expression, statement and block are called through parseRule(name, toks, pos).
RECURSIVE parseRule(_, _, _)
RECURSIVE assignment(_, _), conditional(_, _), binaryLevel(_, _, _), unary(_, _),
          power(_, _), call(_, _), primary(_, _),
          binaryLoop(_, _, _, _), powerLoop(_, _, _), callLoop(_, _, _),
          expressionList(_, _, _), propertyList(_, _, _), blockLoop(_, _, _),
          declaratorList(_, _, _), parameterList(_, _, _), caseBody(_, _, _, _),
          switchLoop(_, _, _, _)

expression(toks, pos) == assignment(toks, pos)

assignment(toks, pos) ==
    Then(conditional(toks, pos), LAMBDA e :
        IF checkAny(toks, e.pos, {"ASSIGN", "PLUS_ASSIGN", "MINUS_ASSIGN"})
        THEN Bind(advance(toks, e.pos), LAMBDA p1 :
             Then(assignment(toks, p1), LAMBDA v :
                 Ok([type |-> "AssignmentExpression", operator |-> previous(toks, p1).value,
                     left |-> e.node, right |-> v.node,
                     line |-> e.node.line, column |-> e.node.column], v.pos)))
        ELSE e)

conditional(toks, pos) ==
    Then(binaryLevel(toks, pos, 1), LAMBDA e :
        IF check(toks, e.pos, "IF")
        THEN Then(parseRule("expression", toks, advance(toks, e.pos)), LAMBDA t :
             Then(parseRule("expression", toks, t.pos), LAMBDA c :
                 Ok([type |-> "ConditionalExpression", test |-> t.node,
                     consequent |-> c.node, alternate |-> e.node,
                     line |-> e.node.line, column |-> e.node.column], c.pos)))
        ELSE e)

\* The operand of a level: the next tighter level, unary below factor.
binaryOperand(toks, pos, level) ==
    IF level = BinaryLevels THEN unary(toks, pos)
    ELSE binaryLevel(toks, pos, level + 1)

\* The right operand read with the rule of the level itself (as assignment
\* does) instead of the next tighter one: a right-leaning tree.
binaryLoopRightRecursive(toks, pos, level, expr) ==
    IF checkAny(toks, pos, levelTypes(level))
    THEN Bind(advance(toks, pos), LAMBDA p1 :
         Then(binaryLevel(toks, p1, level), LAMBDA r :
             Ok([type |-> levelNode(level), operator |-> previous(toks, p1).value,
                 left |-> expr, right |-> r.node,
                 line |-> expr.line, column |-> expr.column], r.pos)))
    ELSE Ok(expr, pos)

binaryLoop(toks, pos, level, expr) ==
    IF checkAny(toks, pos, levelTypes(level))
    THEN Bind(advance(toks, pos), LAMBDA p1 :
         Then(binaryOperand(toks, p1, level), LAMBDA r :
             binaryLoop(toks, r.pos, level,
                        [type |-> levelNode(level), operator |-> previous(toks, p1).value,
                         left |-> expr, right |-> r.node,
                         line |-> expr.line, column |-> expr.column])))
    ELSE Ok(expr, pos)

binaryLevel(toks, pos, level) ==
    Then(binaryOperand(toks, pos, level), LAMBDA e : binaryLoop(toks, e.pos, level, e.node))

logicalOr(toks, pos) == binaryLevel(toks, pos, 1)
logicalAnd(toks, pos) == binaryLevel(toks, pos, 2)
equality(toks, pos) == binaryLevel(toks, pos, 3)
comparison(toks, pos) == binaryLevel(toks, pos, 4)
term(toks, pos) == binaryLevel(toks, pos, 5)
factor(toks, pos) == binaryLevel(toks, pos, 6)

unary(toks, pos) ==
    IF checkAny(toks, pos, {"NOT", "MINUS", "PLUS"})
    THEN Bind(advance(toks, pos), LAMBDA p1 :
         Then(unary(toks, p1), LAMBDA r :
             Ok([type |-> "UnaryExpression", operator |-> previous(toks, p1).value,
                 argument |-> r.node, prefix |-> TRUE,
                 line |-> r.node.line, column |-> r.node.column], r.pos)))
    ELSE power(toks, pos)

powerLoop(toks, pos, expr) ==
    IF check(toks, pos, "POWER")
    THEN Bind(advance(toks, pos), LAMBDA p1 :
         Then(unary(toks, p1), LAMBDA r :
             powerLoop(toks, r.pos,
                       [type |-> "BinaryExpression", operator |-> previous(toks, p1).value,
                        left |-> expr, right |-> r.node,
                        line |-> expr.line, column |-> expr.column])))
    ELSE Ok(expr, pos)

power(toks, pos) ==
    Then(call(toks, pos), LAMBDA e : powerLoop(toks, e.pos, e.node))

\* do { acc.push(expression()) } while (match(COMMA)): Ok(list, pos) or the failure.
expressionList(toks, pos, acc) ==
    Then(parseRule("expression", toks, pos), LAMBDA e :
        IF check(toks, e.pos, "COMMA")
        THEN expressionList(toks, advance(toks, e.pos), Append(acc, e.node))
        ELSE Ok(Append(acc, e.node), e.pos))

callLoop(toks, pos, expr) ==
    CASE check(toks, pos, "LPAREN") ->
           Bind(advance(toks, pos), LAMBDA p1 :
           Then(IF check(toks, p1, "RPAREN") THEN Ok(<<>>, p1)
                ELSE expressionList(toks, p1, <<>>), LAMBDA args :
           Then(consume(toks, args.pos, "RPAREN", "Expect \")\" after arguments"), LAMBDA c :
               callLoop(toks, c.pos,
                        [type |-> "CallExpression", callee |-> expr, arguments |-> args.node,
                         line |-> expr.line, column |-> expr.column]))))
      [] check(toks, pos, "LBRACKET") ->
           Then(parseRule("expression", toks, advance(toks, pos)), LAMBDA prop :
           Then(consume(toks, prop.pos, "RBRACKET", "Expect \"]\" after subscript"), LAMBDA c :
               callLoop(toks, c.pos,
                        [type |-> "MemberExpression", object |-> expr, property |-> prop.node,
                         computed |-> TRUE, line |-> expr.line, column |-> expr.column])))
      [] check(toks, pos, "DOT") ->
           Then(primary(toks, advance(toks, pos)), LAMBDA prop :
               callLoop(toks, prop.pos,
                        [type |-> "MemberExpression", object |-> expr, property |-> prop.node,
                         computed |-> FALSE, line |-> expr.line, column |-> expr.column]))
      [] OTHER -> Ok(expr, pos)

call(toks, pos) ==
    Then(primary(toks, pos), LAMBDA e : callLoop(toks, e.pos, e.node))

\* do { key : value } while (match(COMMA)) of an object literal.
propertyList(toks, pos, acc) ==
    Then(primary(toks, pos), LAMBDA key :
    Then(consume(toks, key.pos, "COLON", "Expect \":\" after property key"), LAMBDA c :
    Then(parseRule("expression", toks, c.pos), LAMBDA v :
    Bind([type |-> "Property", key |-> key.node, value |-> v.node, kind |-> "init",
          line |-> key.node.line, column |-> key.node.column], LAMBDA prop :
        IF check(toks, v.pos, "COMMA")
        THEN propertyList(toks, advance(toks, v.pos), Append(acc, prop))
        ELSE Ok(Append(acc, prop), v.pos)))))

primary(toks, pos) ==
    CASE checkAny(toks, pos, {"NUMBER", "STRING", "BOOLEAN", "NULL"}) ->
           Ok([type |-> "Literal", value |-> peek(toks, pos).value,
               line |-> peek(toks, pos).line, column |-> peek(toks, pos).column], advance(toks, pos))
      [] check(toks, pos, "IDENTIFIER") ->
           Ok([type |-> "Identifier", name |-> peek(toks, pos).value,
               line |-> peek(toks, pos).line, column |-> peek(toks, pos).column], advance(toks, pos))
      [] check(toks, pos, "LPAREN") ->
           Then(parseRule("expression", toks, advance(toks, pos)), LAMBDA e :
           Then(consume(toks, e.pos, "RPAREN", "Expect \")\" after expression"), LAMBDA c :
               Ok(e.node, c.pos)))
      [] check(toks, pos, "LBRACKET") ->
           Bind(advance(toks, pos), LAMBDA p1 :
           Then(IF check(toks, p1, "RBRACKET") THEN Ok(<<>>, p1)
                ELSE expressionList(toks, p1, <<>>), LAMBDA els :
           Then(consume(toks, els.pos, "RBRACKET", "Expect \"]\" after array elements"), LAMBDA c :
               Ok([type |-> "ArrayExpression", elements |-> els.node,
                   line |-> c.node.line, column |-> c.node.column], c.pos))))
      [] check(toks, pos, "LBRACE") ->
           Bind(advance(toks, pos), LAMBDA p1 :
           Then(IF check(toks, p1, "RBRACE") THEN Ok(<<>>, p1)
                ELSE propertyList(toks, p1, <<>>), LAMBDA props :
           Then(consume(toks, props.pos, "RBRACE", "Expect \"}\" after object properties"), LAMBDA c :
               Ok([type |-> "ObjectExpression", properties |-> props.node,
                   line |-> c.node.line, column |-> c.node.column], c.pos))))
      [] check(toks, pos, "ARROW") ->
           Then(identifier(toks, advance(toks, pos)), LAMBDA id :
           Then(consume(toks, id.pos, "ARROW", "Expect \"->\""), LAMBDA c :
           Then(IF check(toks, c.pos, "LBRACE") THEN parseRule("block", toks, c.pos)
                ELSE parseRule("expression", toks, c.pos), LAMBDA body :
               Ok([type |-> "ArrowFunctionExpression", params |-> <<id.node>>,
                   body |-> body.node,
                   line |-> previous(toks, body.pos).line,
                   column |-> previous(toks, body.pos).column], body.pos))))
      [] OTHER ->
           Fail(Err("Error", "Unexpected token", <<peek(toks, pos).type>>, peek(toks, pos).line, NoPos))

\* "(" test ")" after the keyword at pos: Ok(test, position after ")").
parenTest(toks, pos, open, close) ==
    Then(consume(toks, advance(toks, pos), "LPAREN", open), LAMBDA l :
    Then(parseRule("expression", toks, l.pos), LAMBDA t :
    Then(consume(toks, t.pos, "RPAREN", close), LAMBDA r :
        Ok(t.node, r.pos))))

ifStatement(toks, pos) ==
    Then(parenTest(toks, pos, "Expect \"(\" after \"if\"", "Expect \")\" after condition"), LAMBDA t :
    Then(parseRule("statement", toks, t.pos), LAMBDA c :
    Then(IF check(toks, c.pos, "ELSE") THEN parseRule("statement", toks, advance(toks, c.pos))
         ELSE Ok(Undefined, c.pos), LAMBDA a :
        Ok([type |-> "IfStatement", test |-> t.node, consequent |-> c.node,
            alternate |-> a.node,
            line |-> t.node.line, column |-> t.node.column], a.pos))))

whileStatement(toks, pos) ==
    Then(parenTest(toks, pos, "Expect \"(\" after \"while\"", "Expect \")\" after condition"), LAMBDA t :
    Then(parseRule("statement", toks, t.pos), LAMBDA b :
        Ok([type |-> "WhileStatement", test |-> t.node, body |-> b.node,
            line |-> t.node.line, column |-> t.node.column], b.pos)))

\* do { id [= init] } while (match(COMMA)) of a variable declaration.
declaratorList(toks, pos, acc) ==
    Then(identifier(toks, pos), LAMBDA id :
    Then(IF check(toks, id.pos, "ASSIGN")
         THEN parseRule("expression", toks, advance(toks, id.pos))
         ELSE Ok(Undefined, id.pos), LAMBDA init :
    Bind([id |-> id.node, init |-> init.node], LAMBDA decl :
        IF check(toks, init.pos, "COMMA")
        THEN declaratorList(toks, advance(toks, init.pos), Append(acc, decl))
        ELSE Ok(Append(acc, decl), init.pos))))

\* kind = match(VAR) ? 'var' : 'const': only a VAR token is consumed.
variableDeclaration(toks, pos) ==
    Then(declaratorList(toks, match(toks, pos, {"VAR"}), <<>>), LAMBDA ds :
        Ok([type |-> "VariableDeclaration",
            kind |-> IF check(toks, pos, "VAR") THEN "var" ELSE "const",
            declarations |-> ds.node,
            line |-> peek(toks, pos).line, column |-> peek(toks, pos).column], ds.pos))

\* The init clause of a for statement, from the token after "(".
forInit(toks, pos) ==
    CASE check(toks, pos, "SEMICOLON") -> Ok(Undefined, advance(toks, pos))
      [] checkAny(toks, pos, {"VAR", "CONST"}) -> variableDeclaration(toks, pos)
      [] OTHER ->
           Then(parseRule("expression", toks, pos), LAMBDA e :
           Then(consume(toks, e.pos, "SEMICOLON", "Expect \";\" after for loop initializer"), LAMBDA c :
               Ok(e.node, c.pos)))

\* An optional expression, absent when the token at pos is `stop`, then `stop`.
forClause(toks, pos, stop, message) ==
    Then(IF ~check(toks, pos, stop) THEN parseRule("expression", toks, pos)
         ELSE Ok(Undefined, pos), LAMBDA e :
    Then(consume(toks, e.pos, stop, message), LAMBDA c :
        Ok(e.node, c.pos)))

forStatement(toks, pos) ==
    Then(consume(toks, advance(toks, pos), "LPAREN", "Expect \"(\" after \"for\""), LAMBDA l :
    Then(forInit(toks, l.pos), LAMBDA init :
    Then(forClause(toks, init.pos, "SEMICOLON", "Expect \";\" after for loop condition"), LAMBDA test :
    Then(forClause(toks, test.pos, "RPAREN", "Expect \")\" after for clauses"), LAMBDA update :
    Then(parseRule("statement", toks, update.pos), LAMBDA body :
        Ok([type |-> "ForStatement", init |-> init.node,
            test |-> test.node, update |-> update.node,
            body |-> body.node, line |-> body.node.line,
            column |-> body.node.column], body.pos))))))

returnStatement(toks, pos) ==
    Bind(advance(toks, pos), LAMBDA p1 :
    Then(IF ~check(toks, p1, "NEWLINE") /\ ~check(toks, p1, "SEMICOLON")
         THEN parseRule("expression", toks, p1) ELSE Ok(Undefined, p1), LAMBDA arg :
        Ok([type |-> "ReturnStatement", argument |-> arg.node,
            line |-> peek(toks, pos).line, column |-> peek(toks, pos).column], arg.pos)))

parameterList(toks, pos, acc) ==
    Then(identifier(toks, pos), LAMBDA id :
        IF check(toks, id.pos, "COMMA")
        THEN parameterList(toks, advance(toks, id.pos), Append(acc, id.node))
        ELSE Ok(Append(acc, id.node), id.pos))

functionDeclaration(toks, pos) ==
    Then(identifier(toks, advance(toks, pos)), LAMBDA id :
    Then(consume(toks, id.pos, "LPAREN", "Expect \"(\" after function name"), LAMBDA l :
    Then(IF check(toks, l.pos, "RPAREN") THEN Ok(<<>>, l.pos)
         ELSE parameterList(toks, l.pos, <<>>), LAMBDA params :
    Then(consume(toks, params.pos, "RPAREN", "Expect \")\" after parameters"), LAMBDA r :
    Then(parseRule("block", toks, r.pos), LAMBDA body :
        Ok([type |-> "FunctionDeclaration", id |-> id.node,
            params |-> params.node, body |-> body.node,
            line |-> peek(toks, pos).line,
            column |-> peek(toks, pos).column], body.pos))))))

\* The statements of a case: while none of `stops` is the current token.
caseBody(toks, pos, stops, acc) ==
    IF ~checkAny(toks, pos, stops)
    THEN Then(parseRule("statement", toks, pos), LAMBDA s :
             caseBody(toks, s.pos, stops, Append(acc, s.node)))
    ELSE Ok(acc, pos)

\* The while loop of switchStatement.  An iteration whose token is neither CASE
\* nor DEFAULT consumes nothing and changes nothing, so the loop never ends.
switchLoop(toks, pos, token, cases) ==
    IF ~check(toks, pos, "RBRACE") /\ ~isAtEnd(toks, pos)
    THEN CASE check(toks, pos, "CASE") ->
                Then(parseRule("expression", toks, advance(toks, pos)), LAMBDA t :
                Then(consume(toks, t.pos, "COLON", "Expect \":\" after case value"), LAMBDA c :
                Then(caseBody(toks, c.pos, {"CASE", "DEFAULT", "RBRACE"}, <<>>), LAMBDA b :
                    switchLoop(toks, b.pos, token,
                               Append(cases, [type |-> "CaseStatement", test |-> t.node,
                                              consequent |-> b.node, line |-> t.node.line,
                                              column |-> t.node.column])))))
           [] check(toks, pos, "DEFAULT") ->
                Then(consume(toks, advance(toks, pos), "COLON", "Expect \":\" after default"), LAMBDA c :
                Then(caseBody(toks, c.pos, {"CASE", "RBRACE"}, <<>>), LAMBDA b :
                    switchLoop(toks, b.pos, token,
                               Append(cases, [type |-> "CaseStatement", test |-> Undefined,
                                              consequent |-> b.node, line |-> token.line,
                                              column |-> token.column]))))
           [] OTHER -> Hang
    ELSE Ok(cases, pos)

switchStatement(toks, pos) ==
    Then(parenTest(toks, pos, "Expect \"(\" after \"switch\"", "Expect \")\" after switch value"), LAMBDA d :
    Then(consume(toks, d.pos, "LBRACE", "Expect \"{\" after switch value"), LAMBDA l :
    Then(switchLoop(toks, l.pos, peek(toks, pos), <<>>), LAMBDA cases :
    Then(consume(toks, cases.pos, "RBRACE", "Expect \"}\" after switch cases"), LAMBDA r :
        Ok([type |-> "SwitchStatement", discriminant |-> d.node,
            cases |-> cases.node, line |-> peek(toks, pos).line,
            column |-> peek(toks, pos).column], r.pos)))))

statement(toks, pos0) ==
    Bind(skipNewlines(toks, pos0), LAMBDA pos :
       CASE check(toks, pos, "IF") -> ifStatement(toks, pos)
         [] check(toks, pos, "WHILE") -> whileStatement(toks, pos)
         [] check(toks, pos, "FOR") -> forStatement(toks, pos)
         [] check(toks, pos, "RETURN") -> returnStatement(toks, pos)
         [] check(toks, pos, "BREAK") ->
              Ok([type |-> "BreakStatement", line |-> peek(toks, pos).line,
                  column |-> peek(toks, pos).column], advance(toks, pos))
         [] check(toks, pos, "CONTINUE") ->
              Ok([type |-> "ContinueStatement", line |-> peek(toks, pos).line,
                  column |-> peek(toks, pos).column], advance(toks, pos))
         [] checkAny(toks, pos, {"VAR", "CONST"}) -> variableDeclaration(toks, pos)
         [] check(toks, pos, "FUNCTION") -> functionDeclaration(toks, pos)
         [] check(toks, pos, "SWITCH") -> switchStatement(toks, pos)
         [] OTHER ->
              Then(parseRule("expression", toks, pos), LAMBDA e :
                  Ok([type |-> "ExpressionStatement", expression |-> e.node,
                      line |-> e.node.line, column |-> e.node.column], e.pos)))

\* The while loop of block.
blockLoop(toks, pos, body) ==
    IF ~check(toks, pos, "RBRACE") /\ ~isAtEnd(toks, pos)
    THEN Then(parseRule("statement", toks, pos), LAMBDA s :
             blockLoop(toks, s.pos, Append(body, s.node)))
    ELSE Ok(body, pos)

block(toks, pos) ==
    Then(consume(toks, pos, "LBRACE", "Expect \"{\""), LAMBDA l :
    Then(blockLoop(toks, l.pos, <<>>), LAMBDA body :
    Then(consume(toks, body.pos, "RBRACE", "Expect \"}\" after block"), LAMBDA r :
        Ok([type |-> "Block", body |-> body.node, line |-> peek(toks, pos).line,
            column |-> peek(toks, pos).column], r.pos))))

parseRule(name, toks, pos) ==
    CASE name = "statement" -> statement(toks, pos)
      [] name = "block" -> block(toks, pos)
      [] name = "expression" -> expression(toks, pos)

\* The while loop of parse.
RECURSIVE parseLoop(_, _, _)
parseLoop(toks, pos, statements) ==
    IF ~isAtEnd(toks, pos)
    THEN Then(parseRule("statement", toks, pos), LAMBDA s :
             parseLoop(toks, s.pos, Append(statements, s.node)))
    ELSE Ok(statements, pos)

parse(toks) ==
    Then(parseLoop(toks, 0, <<>>), LAMBDA r :
        Ok([type |-> "Program", body |-> r.node, line |-> 1, column |-> 1], r.pos))

(***************************************************************************)
(* Transpiler.  JavaScript code is a sequence of characters.  The instance *)
(* field Transpiler.indent is the parameter `indent` of each visit.        *)
(***************************************************************************)
INDENT_SIZE == 2

\* Array.prototype.join on a list of texts.
RECURSIVE join(_, _)
join(texts, sep) ==
    IF texts = <<>> THEN <<>>
    ELSE IF Len(texts) = 1 THEN texts[1]
    ELSE texts[1] \o sep \o join(Tail(texts), sep)

\* String.prototype.split(sep) for a one-character separator: the list of parts.
RECURSIVE splitLoop(_, _, _, _)
splitLoop(text, sep, acc, cur) ==
    IF text = <<>> THEN Append(acc, cur)
    ELSE IF Head(text) = sep THEN splitLoop(Tail(text), sep, Append(acc, cur), <<>>)
    ELSE splitLoop(Tail(text), sep, acc, Append(cur, Head(text)))

split(text, sep) == splitLoop(text, sep, <<>>, <<>>)

getIndent(indent) == [i \in 1..indent |-> " "]

\* line.trim() is the empty string.
isBlank(line) == \A i \in 1..Len(line) : line[i] \in {" ", "\t", "\r", "\n"}

indentString(code, indent) ==
    Bind(split(code, "\n"), LAMBDA lines :
        join([i \in 1..Len(lines) |->
                 IF ~isBlank(lines[i]) THEN getIndent(indent) \o lines[i] ELSE <<>>], <<"\n">>))

RECURSIVE natToDigits(_)
natToDigits(n) ==
    Bind(<<"0","1","2","3","4","5","6","7","8","9">>[(n % 10) + 1], LAMBDA d :
        IF n < 10 THEN <<d>> ELSE Append(natToDigits(n \div 10), d))

RECURSIVE stripLeadingZeros(_)
stripLeadingZeros(ds) == IF ds # <<>> /\ Head(ds) = "0" THEN stripLeadingZeros(Tail(ds)) ELSE ds

zeros(n) == [i \in 1..n |-> "0"]

\* String(number) (Number::toString) for the value of a NUMBER token: the
\* significant digits D and the exponent n with value = 0.D * 10^n.
\* The digits D (k of them) and the exponent n, written as Number::toString does.
digitsToString(D, k, n) ==
    CASE k = 0 -> <<"0">>
      [] k > 0 /\ k <= n /\ n <= 21 -> D \o zeros(n - k)
      [] k > 0 /\ 0 < n /\ n < k /\ n <= 21 -> SubSeq(D, 1, n) \o <<".">> \o SubSeq(D, n + 1, k)
      [] k > 0 /\ 0 - 6 < n /\ n <= 0 -> <<"0", ".">> \o zeros(0 - n) \o D
      [] OTHER -> (IF k = 1 THEN D ELSE <<D[1], ".">> \o SubSeq(D, 2, k))
                      \o (IF n - 1 < 0 THEN <<"e", "-">> \o natToDigits(0 - (n - 1))
                                       ELSE <<"e", "+">> \o natToDigits(n - 1))

numberToString(v) ==
    Bind(IF v.int = 0 THEN <<>> ELSE natToDigits(v.int), LAMBDA intDigits :
    Bind(intDigits \o v.frac, LAMBDA sig0 :
    Bind(stripLeadingZeros(sig0), LAMBDA sig1 :
    Bind(stripZeros(sig1), LAMBDA D :
        digitsToString(D, Len(D), Len(intDigits) - (Len(sig0) - Len(sig1)) + v.exp)))))

visitLiteral(node) ==
    CASE node.value.t = "str" -> <<"\"">> \o node.value.s \o <<"\"">>
      [] node.value.t = "null" -> <<"n","u","l","l">>
      [] node.value.t = "bool" -> IF node.value.b THEN <<"t","r","u","e">> ELSE <<"f","a","l","s","e">>
      [] OTHER -> numberToString(node.value)

visitIdentifier(node) == node.name.s

RECURSIVE visit(_, _)

visitAll(nodes, indent) == [i \in 1..Len(nodes) |-> visit(nodes[i], indent)]

visitProgram(node, indent) == join(visitAll(node.body, indent), <<"\n", "\n">>)

visitBlock(node, indent) ==
    <<"{", "\n">> \o indentString(join(visitAll(node.body, indent + INDENT_SIZE), <<"\n">>), indent)
        \o <<"\n">> \o getIndent(indent) \o <<"}">>

visitExpressionStatement(node, indent) ==
    getIndent(indent) \o visit(node.expression, indent) \o <<";">>

visitIfStatement(node, indent) ==
    getIndent(indent) \o <<"i","f"," ","(">> \o visit(node.test, indent) \o <<")"," ">> \o visit(node.consequent, indent)
        \o (IF node.alternate # Undefined THEN <<" ","e","l","s","e"," ">> \o visit(node.alternate, indent) ELSE <<>>)

visitWhileStatement(node, indent) ==
    getIndent(indent) \o <<"w","h","i","l","e"," ","(">> \o visit(node.test, indent) \o <<")"," ">> \o visit(node.body, indent)

visitForStatement(node, indent) ==
    getIndent(indent) \o <<"f","o","r"," ","(">>
        \o (IF node.init # Undefined THEN visit(node.init, indent) ELSE <<>>) \o <<";"," ">>
        \o (IF node.test # Undefined THEN visit(node.test, indent) ELSE <<"t","r","u","e">>) \o <<";"," ">>
        \o (IF node.update # Undefined THEN visit(node.update, indent) ELSE <<>>) \o <<")"," ">>
        \o visit(node.body, indent)

visitReturnStatement(node, indent) ==
    IF node.argument # Undefined
    THEN getIndent(indent) \o <<"r","e","t","u","r","n"," ">> \o visit(node.argument, indent) \o <<";">>
    ELSE getIndent(indent) \o <<"r","e","t","u","r","n",";">>

visitBreakStatement(node, indent) == getIndent(indent) \o <<"b","r","e","a","k",";">>

visitContinueStatement(node, indent) == getIndent(indent) \o <<"c","o","n","t","i","n","u","e",";">>

visitVariableDeclaration(node, indent) ==
    getIndent(indent) \o (IF node.kind = "var" THEN <<"v","a","r">> ELSE <<"c","o","n","s","t">>) \o <<" ">>
        \o join([i \in 1..Len(node.declarations) |->
                    visit(node.declarations[i].id, indent)
                        \o (IF node.declarations[i].init # Undefined
                            THEN <<" ","="," ">> \o visit(node.declarations[i].init, indent) ELSE <<>>)],
                 <<","," ">>)
        \o <<";">>

visitFunctionDeclaration(node, indent) ==
    getIndent(indent) \o <<"f","u","n","c","t","i","o","n"," ">> \o visit(node.id, indent) \o <<"(">>
        \o join(visitAll(node.params, indent), <<","," ">>) \o <<")"," ">> \o visit(node.body, indent)

\* The cases of a switch statement, visited with indent = inner.
visitCases(cases, inner) ==
    join([i \in 1..Len(cases) |->
            getIndent(inner)
                \o (IF cases[i].test # Undefined
                    THEN <<"c","a","s","e"," ">> \o visit(cases[i].test, inner) \o <<":">>
                    ELSE <<"d","e","f","a","u","l","t",":">>)
                \o <<"\n">>
                \o join(visitAll(cases[i].consequent, inner + INDENT_SIZE), <<"\n">>)],
         <<"\n">>)

visitSwitchStatement(node, indent) ==
    getIndent(indent) \o <<"s","w","i","t","c","h"," ","(">> \o visit(node.discriminant, indent)
        \o <<")"," ","{">> \o <<"\n">> \o visitCases(node.cases, indent + INDENT_SIZE) \o <<"\n">>
        \o getIndent(indent) \o <<"}">>

visitBinaryExpression(node, indent) ==
    <<"(">> \o visit(node.left, indent) \o <<" ">> \o node.operator.s \o <<" ">>
        \o visit(node.right, indent) \o <<")">>

visitUnaryExpression(node, indent) ==
    IF node.prefix
    THEN <<"(">> \o node.operator.s \o visit(node.argument, indent) \o <<")">>
    ELSE <<"(">> \o visit(node.argument, indent) \o node.operator.s \o <<")">>

visitAssignmentExpression(node, indent) ==
    visit(node.left, indent) \o <<" ">> \o node.operator.s \o <<" ">> \o visit(node.right, indent)

visitLogicalExpression(node, indent) ==
    <<"(">> \o visit(node.left, indent) \o <<" ">>
        \o (IF node.operator.s = <<"a","n","d">> THEN <<"&","&">>
            ELSE IF node.operator.s = <<"o","r">> THEN <<"|","|">> ELSE node.operator.s)
        \o <<" ">> \o visit(node.right, indent) \o <<")">>

visitCallExpression(node, indent) ==
    visit(node.callee, indent) \o <<"(">> \o join(visitAll(node.arguments, indent), <<","," ">>) \o <<")">>

visitMemberExpression(node, indent) ==
    IF node.computed
    THEN visit(node.object, indent) \o <<"[">> \o visit(node.property, indent) \o <<"]">>
    ELSE visit(node.object, indent) \o <<".">> \o visit(node.property, indent)

visitArrayExpression(node, indent) ==
    <<"[">> \o join(visitAll(node.elements, indent), <<","," ">>) \o <<"]">>

visitObjectExpression(node, indent) ==
    <<"{">> \o join([i \in 1..Len(node.properties) |->
                        visit(node.properties[i].key, indent) \o <<":"," ">>
                            \o visit(node.properties[i].value, indent)], <<","," ">>) \o <<"}">>

visitArrowFunctionExpression(node, indent) ==
    <<"(">> \o join(visitAll(node.params, indent), <<","," ">>) \o <<")"," ","=",">"," ">> \o visit(node.body, indent)

visitConditionalExpression(node, indent) ==
    visit(node.test, indent) \o <<" ","?"," ">> \o visit(node.consequent, indent) \o <<" ",":"," ">>
        \o visit(node.alternate, indent)

visit(node, indent) ==
    CASE node.type = "Program" -> visitProgram(node, indent)
      [] node.type = "Block" -> visitBlock(node, indent)
      [] node.type = "ExpressionStatement" -> visitExpressionStatement(node, indent)
      [] node.type = "IfStatement" -> visitIfStatement(node, indent)
      [] node.type = "WhileStatement" -> visitWhileStatement(node, indent)
      [] node.type = "ForStatement" -> visitForStatement(node, indent)
      [] node.type = "ReturnStatement" -> visitReturnStatement(node, indent)
      [] node.type = "BreakStatement" -> visitBreakStatement(node, indent)
      [] node.type = "ContinueStatement" -> visitContinueStatement(node, indent)
      [] node.type = "VariableDeclaration" -> visitVariableDeclaration(node, indent)
      [] node.type = "FunctionDeclaration" -> visitFunctionDeclaration(node, indent)
      [] node.type = "SwitchStatement" -> visitSwitchStatement(node, indent)
      [] node.type = "BinaryExpression" -> visitBinaryExpression(node, indent)
      [] node.type = "UnaryExpression" -> visitUnaryExpression(node, indent)
      [] node.type = "AssignmentExpression" -> visitAssignmentExpression(node, indent)
      [] node.type = "LogicalExpression" -> visitLogicalExpression(node, indent)
      [] node.type = "CallExpression" -> visitCallExpression(node, indent)
      [] node.type = "MemberExpression" -> visitMemberExpression(node, indent)
      [] node.type = "Identifier" -> visitIdentifier(node)
      [] node.type = "Literal" -> visitLiteral(node)
      [] node.type = "ArrayExpression" -> visitArrayExpression(node, indent)
      [] node.type = "ObjectExpression" -> visitObjectExpression(node, indent)
      [] node.type = "ArrowFunctionExpression" -> visitArrowFunctionExpression(node, indent)
      [] node.type = "ConditionalExpression" -> visitConditionalExpression(node, indent)

transpile(node) == visit(node, 0)

(***************************************************************************)
(* Runtime: Environment and PLRuntime.  A Map is the sequence of its       *)
(* <<key, value>> entries in insertion order.                              *)
(***************************************************************************)
MapHas(m, key) == \E i \in 1..Len(m) : m[i][1] = key
MapGet(m, key) == m[CHOOSE i \in 1..Len(m) : m[i][1] = key][2]
MapSet(m, key, value) ==
    IF MapHas(m, key)
    THEN [i \in 1..Len(m) |-> IF m[i][1] = key THEN <<key, value>> ELSE m[i]]
    ELSE Append(m, <<key, value>>)
MapKeys(m) == [i \in 1..Len(m) |-> m[i][1]]
MapValues(m) == [i \in 1..Len(m) |-> m[i][2]]

JsUndefined == [t |-> "undefined"]
Builtin(name) == [t |-> "function", name |-> name]
Object(entries) == [t |-> "object", entries |-> entries]

\* An Environment: its values Map and its parent (NoEnv when it has none).
NoEnv == [t |-> "none"]
Environment(parent) == [values |-> <<>>, parent |-> parent]

define(env, name, value) == [env EXCEPT !.values = MapSet(@, name, value)]

RECURSIVE get(_, _)
get(env, name) ==
    IF MapHas(env.values, name) THEN [k |-> "return", value |-> MapGet(env.values, name)]
    ELSE IF env.parent # NoEnv THEN get(env.parent, name)
    ELSE [k |-> "throw", err |-> Err("RuntimeError", "Undefined variable", name, NoPos, NoPos)]

\* Environment.assign gives the chain after the call (env with the parents it
\* reaches), or what it throws.
\* An assign that sets the name in the Environment it is called on.
assignLocal(env, name, value) == [k |-> "return", env |-> define(env, name, value)]
RECURSIVE assign(_, _, _)
assign(env, name, value) ==
    IF MapHas(env.values, name)
    THEN [k |-> "return", env |-> [env EXCEPT !.values = MapSet(@, name, value)]]
    ELSE IF env.parent # NoEnv
    THEN Bind(assign(env.parent, name, value), LAMBDA r :
             IF r.k = "throw" THEN r
             ELSE [k |-> "return", env |-> [env EXCEPT !.parent = r.env]])
    ELSE [k |-> "throw", err |-> Err("RuntimeError", "Undefined variable", name, NoPos, NoPos)]

\* The builtins Map of the PLRuntime constructor, in insertion order.
builtins ==
    << <<"p","r","i","n","t">>, <<"p","r","i","n","t","l","n">>, <<"l","e","n">>, <<"p","u","s","h">>, <<"p","o","p">>, <<"k","e","y","s">>, <<"v","a","l","u","e","s">>, <<"t","y","p","e">>, <<"p","a","r","s","e","I","n","t">>,
       <<"p","a","r","s","e","F","l","o","a","t">>, <<"t","o","S","t","r","i","n","g">>,
       <<"M","a","t","h",".","r","a","n","d","o","m">>, <<"M","a","t","h",".","f","l","o","o","r">>, <<"M","a","t","h",".","c","e","i","l">>, <<"M","a","t","h",".","r","o","u","n","d">>, <<"M","a","t","h",".","a","b","s">>, <<"M","a","t","h",".","m","i","n">>,
       <<"M","a","t","h",".","m","a","x">>, <<"M","a","t","h",".","p","o","w">>, <<"M","a","t","h",".","s","q","r","t">>,
       <<"S","t","r","i","n","g",".","s","u","b","s","t","r","i","n","g">>, <<"S","t","r","i","n","g",".","t","o","U","p","p","e","r","C","a","s","e">>, <<"S","t","r","i","n","g",".","t","o","L","o","w","e","r","C","a","s","e">>, <<"S","t","r","i","n","g",".","t","r","i","m">>,
       <<"A","r","r","a","y",".","j","o","i","n">>, <<"A","r","r","a","y",".","r","e","v","e","r","s","e">>, <<"A","r","r","a","y",".","s","o","r","t">> >>

includes(text, c) == \E i \in 1..Len(text) : text[i] = c
JsTruthy(v) == v.t \notin {"undefined", "null"}

\* PLRuntime.initializeBuiltins from the i-th entry of builtins on: the globals
\* Environment when the forEach completes, or what it throws.
RECURSIVE initializeBuiltins(_, _)
initializeBuiltins(globals, i) ==
    IF i > Len(builtins) THEN [k |-> "return", value |-> globals]
    ELSE Bind(builtins[i], LAMBDA name :
         IF includes(name, ".")
         THEN Bind(split(name, "."), LAMBDA parts :
              Bind(get(globals, parts[1]), LAMBDA probe :
                  IF probe.k = "throw" THEN probe
                  ELSE Bind(IF ~JsTruthy(probe.value) THEN define(globals, parts[1], Object(<<>>))
                            ELSE globals, LAMBDA g1 :
                       Bind(get(g1, parts[1]).value, LAMBDA object :
                           initializeBuiltins(
                               define(g1, parts[1],
                                      Object(MapSet(object.entries, parts[2], Builtin(name)))),
                               i + 1)))))
         ELSE initializeBuiltins(define(globals, name, Builtin(name)), i + 1))

\* new PLRuntime(): the runtime, or what the constructor throws.
PLRuntimeNew ==
    Bind(initializeBuiltins(Environment(NoEnv), 1), LAMBDA r :
        IF r.k = "throw" THEN r
        ELSE [k |-> "return", value |-> [globals |-> r.value, environment |-> r.value]])

(***************************************************************************)
(* PLCompiler.  A call gives [k |-> "return", value], [k |-> "throw", err] *)
(* or [k |-> "hang"] when it never returns.                                *)
(***************************************************************************)
Return(value) == [k |-> "return", value |-> value]
Throw(err) == [k |-> "throw", err |-> err]

\* error.message of a thrown Error, and new RuntimeError(message).
Message(err) == [text |-> err.text, detail |-> err.detail, line |-> err.line, column |-> err.column]
RuntimeError(message) == Err("RuntimeError", message.text, message.detail, message.line, message.column)

wrapPrefix ==
    <<"/","/"," ","P","L"," ","R","u","n","t","i","m","e","\n","(","f","u","n","c","t","i","o","n","(",
       ")"," ","{","\n"," "," ","c","o","n","s","t"," ","p","r","i","n","t"," ","="," ","(",".",".",".",
       "a","r","g","s",")"," ","=",">"," ","c","o","n","s","o","l","e",".","l","o","g","(",".",".",".",
       "a","r","g","s",")",";","\n"," "," ","c","o","n","s","t"," ","p","r","i","n","t","l","n"," ","=",
       " ","(",".",".",".","a","r","g","s",")"," ","=",">"," ","c","o","n","s","o","l","e",".","l","o",
       "g","(",".",".",".","a","r","g","s",")",";","\n"," "," ","c","o","n","s","t"," ","l","e","n"," ",
       "="," ","(","o","b","j",")"," ","=",">"," ","{","\n"," "," "," "," ","i","f"," ","(","A","r","r",
       "a","y",".","i","s","A","r","r","a","y","(","o","b","j",")",")"," ","r","e","t","u","r","n"," ",
       "o","b","j",".","l","e","n","g","t","h",";","\n"," "," "," "," ","i","f"," ","(","t","y","p","e",
       "o","f"," ","o","b","j"," ","=","=","="," ","'","s","t","r","i","n","g","'",")"," ","r","e","t",
       "u","r","n"," ","o","b","j",".","l","e","n","g","t","h",";","\n"," "," "," "," ","i","f"," ","(",
       "t","y","p","e","o","f"," ","o","b","j"," ","=","=","="," ","'","o","b","j","e","c","t","'"," ",
       "&","&"," ","o","b","j"," ","!","=","="," ","n","u","l","l",")"," ","r","e","t","u","r","n"," ",
       "O","b","j","e","c","t",".","k","e","y","s","(","o","b","j",")",".","l","e","n","g","t","h",";",
       "\n"," "," "," "," ","t","h","r","o","w"," ","n","e","w"," ","T","y","p","e","E","r","r","o","r",
       "(","'","O","b","j","e","c","t"," ","h","a","s"," ","n","o"," ","l","e","n","g","t","h","'",")",
       ";","\n"," "," ","}",";","\n","\n"," "," ">>

wrapSuffix == <<"\n","}",")","(",")",";">>

wrapWithRuntime(code) == wrapPrefix \o code \o wrapSuffix

generateSourceMap == [version |-> 3, sources |-> <<<<"i","n","p","u","t",".","p","l">>>>, names |-> <<>>, mappings |-> <<>>]

\* The catch clause of compile.
compileCatch(err) == Return([code |-> <<>>, errors |-> <<Message(err)>>, warnings |-> <<>>,
                             sourceMap |-> JsUndefined])

\* options: sourceMap (absent = FALSE) and runtime (absent = TRUE, the test is
\* options.runtime !== false).
compile(src, options) ==
    Bind(tokenize(src), LAMBDA lx :
        IF ~lx.ok THEN compileCatch(lx.err)
        ELSE Bind(parse(lx.tokens), LAMBDA ps :
            IF ps.k = "hang" THEN Hang
            ELSE IF ps.k = "err" THEN compileCatch(ps.err)
            ELSE Bind(transpile(ps.node), LAMBDA code :
                Return([code |-> IF options.runtime # FALSE THEN wrapWithRuntime(code) ELSE code,
                        errors |-> <<>>, warnings |-> <<>>,
                        sourceMap |-> IF options.sourceMap THEN generateSourceMap
                                      ELSE JsUndefined]))))

\* errors.join('\n') of the error list of a CompileResult (one message).
joinErrors(errors) == errors[1]

\* A Promise: "fulfilled" with a value or "rejected" with a reason.
Promise(state, result) == [t |-> "promise", state |-> state, result |-> result]

\* What the host JavaScript engine gives for new Function(...keys, code)(...values):
\* the evaluation of generated code is outside this model.
hostFunction(keys, code, values) == [t |-> "host", keys |-> keys, code |-> code, values |-> values]

\* ctx (the ExecutionContext): timeout (0 when absent) and globals (the empty Map when absent).
\* The part of execute from `new PLRuntime()` on, once runtime is constructed.
executeCompiled(code, ctx, runtime) ==
    Bind(hostFunction(MapKeys(ctx.globals), code, MapValues(ctx.globals)), LAMBDA fn :
        IF ctx.timeout # 0
        THEN Return([t |-> "promise", state |-> "pending", result |-> fn, timer |-> ctx.timeout])
        ELSE Return(fn))

execute(src, ctx) ==
    Bind(compile(src, [sourceMap |-> FALSE, runtime |-> FALSE]), LAMBDA result :
        IF result.k = "hang" THEN Hang
        ELSE IF Len(result.value.errors) > 0
        THEN Throw(RuntimeError(joinErrors(result.value.errors)))
        ELSE Bind(PLRuntimeNew, LAMBDA runtime :
            IF runtime.k = "throw" THEN runtime
            ELSE executeCompiled(result.value.code, ctx, runtime.value)))

\* executeAsync going on without a runtime when `new PLRuntime()` throws.
executeAsyncLenient(src, ctx) ==
    Bind(compile(src, [sourceMap |-> FALSE, runtime |-> FALSE]), LAMBDA result :
        IF result.k = "hang" THEN Hang
        ELSE IF Len(result.value.errors) > 0
        THEN Return(Promise("rejected", RuntimeError(joinErrors(result.value.errors))))
        ELSE Return(Promise("fulfilled",
                            executeCompiled(result.value.code, ctx, NoEnv).value)))

\* executeAsync is an async function: what execute throws rejects its promise.
executeAsync(src, ctx) ==
    Bind(compile(src, [sourceMap |-> FALSE, runtime |-> FALSE]), LAMBDA result :
        IF result.k = "hang" THEN Hang
        ELSE IF Len(result.value.errors) > 0
        THEN Return(Promise("rejected", RuntimeError(joinErrors(result.value.errors))))
        ELSE Bind(PLRuntimeNew, LAMBDA runtime :
            IF runtime.k = "throw" THEN Return(Promise("rejected", runtime.err))
            ELSE Return(Promise("fulfilled",
                                executeCompiled(result.value.code, ctx, runtime.value).value))))


(***************************************************************************)
(* PLREPL.  hists / ctxs are the history and context fields of all the     *)
(* sessions, s the session the method is called on.                        *)
(***************************************************************************)
\* Object.fromEntries(this.context): the entries in insertion order.
fromEntries(map) == map

\* PLREPL.evaluate after history.push: the try / catch around compiler.execute.
evaluate(input, ctxMap) ==
    Bind(execute(input, [timeout |-> 0, globals |-> fromEntries(ctxMap)]), LAMBDA r :
        CASE r.k = "return" -> Return([output |-> r.value, errors |-> <<>>])
          [] r.k = "throw" -> Return([output |-> Null, errors |-> <<Message(r.err)>>])
          [] OTHER -> Hang)

\* PLREPL.evaluateAsync after history.push: the try / catch around the awaited
\* compiler.executeAsync.  The promise it returns is fulfilled either way.
evaluateAsync(input, ctxMap) ==
    Bind(executeAsync(input, [timeout |-> 0, globals |-> fromEntries(ctxMap)]), LAMBDA r :
        CASE r.k = "hang" -> Hang
          [] r.k = "return" /\ r.value.state = "fulfilled" ->
                Return(Promise("fulfilled", [output |-> r.value.result, errors |-> <<>>]))
          [] OTHER ->
                Return(Promise("fulfilled",
                               [output |-> Null, errors |-> <<Message(r.value.result)>>])))

\* unshift in place of push: the newest input is put first.
pushHistoryFront(hists, s, input) == [hists EXCEPT ![s] = <<input>> \o @]
pushHistory(hists, s, input) == [hists EXCEPT ![s] = Append(@, input)]
getHistory(hists, s) == hists[s]
clearHistory(hists, s) == [hists EXCEPT ![s] = <<>>]
setVariable(ctxs, s, name, value) == [ctxs EXCEPT ![s] = MapSet(@, name, value)]
getVariable(ctxs, s, name) == IF MapHas(ctxs[s], name) THEN MapGet(ctxs[s], name) ELSE JsUndefined
\* A context Map held once for all sessions (a static field) instead of a field
\* of the instance: clear() on it empties every session's bindings.
clearContextShared(ctxs, s) == [t \in DOMAIN ctxs |-> <<>>]
clearContext(ctxs, s) == [ctxs EXCEPT ![s] = <<>>]

(***************************************************************************)
(* Inputs                                                                  *)
(***************************************************************************)
SrcEval == <<"e","v","a","l","(","\"","1","\"",")">>
SrcRequire == <<"r","e","q","u","i","r","e","(","\"","x","\"",")">>
SrcImport == <<"i","m","p","o","r","t","(","\"","x","\"",")">>
SrcPollute == <<"O","b","j","e","c","t",".","p","r","o","t","o","t","y","p","e",".","p","o","l","l","u","t","e","d"," ","="," ","t","r","u","e">>
SrcLoopTrue == <<"w","h","i","l","e"," ","(","t","r","u","e",")"," ","{"," ","}">>
SrcLoopOne == <<"w","h","i","l","e"," ","(","1",")"," ","{"," ","}">>
SrcVarX10 == <<"v","a","r"," ","x"," ","="," ","1","0">>
SrcX == <<"x">>
SrcPrint == <<"p","r","i","n","t","(","1",")">>
SrcEmpty == <<>>
SrcBadExpr == <<"1"," ","+">>
SrcBadChar == <<"x"," ","#"," ","1">>
SrcBadString == <<"\"","a","b","c">>
SrcBadBlock == <<"f","u","n","c","t","i","o","n"," ","f","("," ","{">>
SrcBadSwitch == <<"s","w","i","t","c","h"," ","(","x",")"," ","{"," ","y"," ","}">>
SrcFunctionLines == <<"f","u","n","c","t","i","o","n"," ","f","(",")"," ","{","\n","x","\n","y","\n","}">>
SrcFunctionInline == <<"f","u","n","c","t","i","o","n"," ","f","(",")"," ","{"," ","x"," ","}">>
SrcIfBlock == <<"i","f"," ","(","c",")"," ","{"," ","s"," ","}">>
SrcIfElseBlock == <<"i","f"," ","(","c",")"," ","{"," ","s"," ","}"," ","e","l","s","e"," ","{"," ","t"," ","}">>
SrcWhileBlock == <<"w","h","i","l","e"," ","(","c",")"," ","{"," ","s"," ","}">>
SrcForDeclaration == <<"f","o","r"," ","(","v","a","r"," ","i"," ","="," ","0",";"," ","i"," ","<"," ","1","0",";"," ","i"," ","="," ","i"," ","+"," ","1",")"," ","x">>
SrcForExpression == <<"f","o","r"," ","(","i"," ","="," ","0",";"," ","i"," ","<"," ","1","0",";"," ","i"," ","="," ","i"," ","+"," ","1",")"," ","x">>
SrcForEmpty == <<"f","o","r"," ","(",";",";",")"," ","x">>
SrcArrowExpression == <<"x"," ","-",">"," ","x"," ","*"," ","2">>
SrcArrowBlock == <<"x"," ","-",">"," ","{"," ","}">>
SrcTrue == <<"t","r","u","e">>
SrcFalse == <<"f","a","l","s","e">>
SrcNull == <<"n","u","l","l">>

SrcScope == <<"v","a","r"," ","x"," ","="," ","1","0",";"," ","f","u","n","c","t","i","o","n"," ","f","(",")","{"," ","v","a","r"," ","x"," ","="," ","2","0",";"," ","r","e","t","u","r","n"," ","x"," ","}"," ","p","r","i","n","t","(","f","(",")",")",";"," ","p","r","i","n","t","(","x",")">>
SrcSwitchNewline == <<"s","w","i","t","c","h"," ","(","x",")"," ","{","\n","}">>
SrcEscapeThenName == <<"\"","\\","n","\""," ","x">>
SrcAndLower == <<"a"," ","a","n","d"," ","b">>
SrcAndUpper == <<"a"," ","A","N","D"," ","b">>
SrcOrLower == <<"a"," ","o","r"," ","b">>
SrcOrMixed == <<"a"," ","O","r"," ","b">>
SrcNotLower == <<"n","o","t"," ","a">>
SrcNotUpper == <<"N","O","T"," ","a">>
SrcAssignPlus == <<"(","a"," ","="," ","1",")"," ","+"," ","2">>
SrcConditionalPlus == <<"(","a"," ","i","f"," ","b"," ","c",")"," ","+"," ","2">>
SrcStringPlain == <<"\"","a","b","\"">>
SrcStringQuote == <<"\"","a","\\","\"","b","\"">>
SrcStringBackslash == <<"\"","a","\\","\\","b","\"">>
SrcStringNewline == <<"\"","a","\\","n","b","\"">>
SrcArrayLiteral == <<"[","1","]">>
\* The operator texts of the six binary levels, loosest first, of assignment
\* and of power, and the source `a op1 b op2 c`.
OperatorsOfLevel ==
    << {<<"o","r">>}, {<<"a","n","d">>}, {<<"=","=">>, <<"!","=">>},
       {<<"<">>, <<">">>, <<"<","=">>, <<">","=">>}, {<<"+">>, <<"-">>},
       {<<"*">>, <<"/">>, <<"%">>} >>
BinaryOperators == UNION {OperatorsOfLevel[l] : l \in 1..BinaryLevels}
AssignmentOperators == {<<"=">>, <<"+","=">>, <<"-","=">>}
PowerOperator == <<"^">>
LevelOf(op) == CHOOSE l \in 1..BinaryLevels : op \in OperatorsOfLevel[l]
SrcChain(op1, op2) == <<"a", " ">> \o op1 \o <<" ", "b", " ">> \o op2 \o <<" ", "c">>
ChainSources ==
    {SrcChain(o[1], o[2]) : o \in (BinaryOperators \X BinaryOperators)
                                  \cup (AssignmentOperators \X AssignmentOperators)
                                  \cup {<<PowerOperator, PowerOperator>>}}

\* Programs that use a denylisted capability.
DenylistedSources == {SrcEval, SrcRequire, SrcImport, SrcPollute}
\* Programs that never finish once they run.
LoopingSources == {SrcLoopTrue, SrcLoopOne}
\* Programs the lexer or the parser rejects.
MalformedSources == {SrcBadExpr, SrcBadChar, SrcBadString, SrcBadBlock}

LogicalSources == {SrcAndLower, SrcAndUpper, SrcOrLower, SrcOrMixed, SrcNotLower, SrcNotUpper}

GroupingSources == {SrcAssignPlus, SrcConditionalPlus}

StringSources == {SrcStringPlain, SrcStringQuote, SrcStringBackslash, SrcStringNewline}

ApiSources ==
    DenylistedSources \cup LoopingSources \cup MalformedSources
        \cup {SrcVarX10, SrcX, SrcPrint, SrcEmpty, SrcBadSwitch, SrcFunctionInline, SrcScope}
        \cup LogicalSources \cup GroupingSources \cup StringSources

ReplInputs == {SrcVarX10, SrcX, SrcBadExpr, SrcBadSwitch}
AsyncInputs == {SrcX}

NameX == <<"x">>
NameY == <<"y">>
Names == {NameX, NameY}
HostValues == {Num(10, <<>>, 0), Num(20, <<>>, 0)}

Sessions == {1, 2}

Timeouts == {0, 100}
Contexts == [timeout : Timeouts, globals : {<<>>, << <<NameX, Num(10, <<>>, 0)>> >>}]
Options == [sourceMap : BOOLEAN, runtime : BOOLEAN]

MaxOps == 3
MaxLen == 3
MaxDepth == 2

FrontAlphabet == {" ", "\t", "\r", "\n", "x", "1"}
FrontSamples == {SrcFunctionLines, SrcFunctionInline, SrcVarX10, SrcBadSwitch, SrcBadString,
     SrcBadExpr, SrcBadBlock,
     SrcIfBlock, SrcIfElseBlock, SrcWhileBlock,
     SrcForDeclaration, SrcForExpression, SrcForEmpty,
     SrcArrowExpression, SrcArrowBlock,
     SrcTrue, SrcFalse, SrcNull,
     SrcSwitchNewline,
     SrcEscapeThenName,
     SrcArrayLiteral}
FrontSources == (UNION {[1..n -> FrontAlphabet] : n \in 0..MaxLen}) \cup FrontSamples \cup ChainSources

(***************************************************************************)
(* The REPL sessions (specification Spec)                                  *)
(***************************************************************************)
NoCall == [op |-> "none"]
NoResult == [k |-> "none"]

FrontIdle == source = <<>> /\ phase = "idle" /\ lexed = NoResult /\ parsed = NoResult
ApiIdle == apiCall = NoCall
ReplIdle ==
    /\ history = [s \in Sessions |-> <<>>]
    /\ context = [s \in Sessions |-> <<>>]
    /\ last = [s \in Sessions |-> NoResult]
    /\ oplog = [s \in Sessions |-> <<>>]

EnvIdle == environment = Environment(NoEnv) /\ envCall = NoCall

RECURSIVE SumLen(_, _)
SumLen(f, S) == IF S = {} THEN 0 ELSE LET x == CHOOSE y \in S : TRUE IN Len(f[x]) + SumLen(f, S \ {x})
OpsDone == SumLen(oplog, Sessions)

Logged(s, entry) == oplog' = [oplog EXCEPT ![s] = Append(@, entry)]

Init == FrontIdle /\ ApiIdle /\ ReplIdle /\ EnvIdle /\ hostBlocked = FALSE

Evaluate(s, input) ==
    /\ ~hostBlocked /\ OpsDone < MaxOps
    /\ history' = pushHistory(history, s, input)
    /\ last' = [last EXCEPT ![s] = evaluate(input, context[s])]
    /\ hostBlocked' = (last'[s].k = "hang")
    /\ Logged(s, [op |-> "evaluate", input |-> input])
    /\ UNCHANGED <<context, frontVars, apiVars, envVars>>

EvaluateAsync(s, input) ==
    /\ ~hostBlocked /\ OpsDone < MaxOps
    /\ history' = pushHistory(history, s, input)
    /\ last' = [last EXCEPT ![s] = evaluateAsync(input, context[s])]
    /\ hostBlocked' = (last'[s].k = "hang")
    /\ Logged(s, [op |-> "evaluateAsync", input |-> input])
    /\ UNCHANGED <<context, frontVars, apiVars, envVars>>

SetVariable(s, name, value) ==
    /\ ~hostBlocked /\ OpsDone < MaxOps
    /\ context' = setVariable(context, s, name, value)
    /\ last' = [last EXCEPT ![s] = Return(JsUndefined)]
    /\ Logged(s, [op |-> "setVariable", name |-> name, value |-> value])
    /\ UNCHANGED <<history, hostBlocked, frontVars, apiVars, envVars>>

GetVariable(s, name) ==
    /\ ~hostBlocked /\ OpsDone < MaxOps
    /\ last' = [last EXCEPT ![s] = Return(getVariable(context, s, name))]
    /\ Logged(s, [op |-> "getVariable", name |-> name])
    /\ UNCHANGED <<history, context, hostBlocked, frontVars, apiVars, envVars>>

\* clearContext resetting the whole session: it empties the history as well.
ClearContextAndHistory(s) ==
    /\ ~hostBlocked /\ OpsDone < MaxOps
    /\ context' = clearContext(context, s)
    /\ history' = clearHistory(history, s)
    /\ last' = [last EXCEPT ![s] = Return(JsUndefined)]
    /\ Logged(s, [op |-> "clearContext"])
    /\ UNCHANGED <<hostBlocked, frontVars, apiVars, envVars>>

ClearContext(s) ==
    /\ ~hostBlocked /\ OpsDone < MaxOps
    /\ context' = clearContext(context, s)
    /\ last' = [last EXCEPT ![s] = Return(JsUndefined)]
    /\ Logged(s, [op |-> "clearContext"])
    /\ UNCHANGED <<history, hostBlocked, frontVars, apiVars, envVars>>

ClearHistory(s) ==
    /\ ~hostBlocked /\ OpsDone < MaxOps
    /\ history' = clearHistory(history, s)
    /\ last' = [last EXCEPT ![s] = Return(JsUndefined)]
    /\ Logged(s, [op |-> "clearHistory"])
    /\ UNCHANGED <<context, hostBlocked, frontVars, apiVars, envVars>>

GetHistory(s) ==
    /\ ~hostBlocked /\ OpsDone < MaxOps
    /\ last' = [last EXCEPT ![s] = Return(getHistory(history, s))]
    /\ Logged(s, [op |-> "getHistory"])
    /\ UNCHANGED <<history, context, hostBlocked, frontVars, apiVars, envVars>>

Next ==
    \/ \E s \in Sessions, input \in ReplInputs : Evaluate(s, input)
    \/ \E s \in Sessions, input \in AsyncInputs : EvaluateAsync(s, input)
    \/ \E s \in Sessions, name \in Names, value \in HostValues : SetVariable(s, name, value)
    \/ \E s \in Sessions, name \in Names : GetVariable(s, name)
    \/ \E s \in Sessions : ClearContext(s)
    \/ \E s \in Sessions : ClearHistory(s)
    \/ \E s \in Sessions : GetHistory(s)

Spec == Init /\ [][Next]_vars

(***************************************************************************)
(* The compiler API (specification SpecApi)                                *)
(***************************************************************************)
\* A call of the API and its outcome.  The caller observes the outcome of a
\* synchronous call when it returns or throws.
Called(op, src, arg, outcome) ==
    [op |-> op, source |-> src, arg |-> arg, outcome |-> outcome,
     observed |-> op # "executeAsync" /\ outcome.k # "hang"]

Compile(src, options) ==
    /\ ~hostBlocked
    /\ apiCall' = Called("compile", src, options, compile(src, options))
    /\ hostBlocked' = (apiCall'.outcome.k = "hang")
    /\ UNCHANGED <<frontVars, replVars, envVars>>

Execute(src, ctx) ==
    /\ ~hostBlocked
    /\ apiCall' = Called("execute", src, ctx, execute(src, ctx))
    /\ hostBlocked' = (apiCall'.outcome.k = "hang")
    /\ UNCHANGED <<frontVars, replVars, envVars>>

\* The call returns its promise; the caller's await / then / catch observes the
\* settlement in a later job (PromiseReaction).
ExecuteAsync(src, ctx) ==
    /\ ~hostBlocked
    /\ apiCall' = Called("executeAsync", src, ctx, executeAsync(src, ctx))
    /\ hostBlocked' = (apiCall'.outcome.k = "hang")
    /\ UNCHANGED <<frontVars, replVars, envVars>>

PromiseReaction ==
    /\ ~hostBlocked
    /\ apiCall.op = "executeAsync" /\ ~apiCall.observed
    /\ apiCall.outcome.value.state \in {"fulfilled", "rejected"}
    /\ apiCall' = [apiCall EXCEPT !.observed = TRUE]
    /\ UNCHANGED <<hostBlocked, frontVars, replVars, envVars>>

NextApi ==
    \/ \E src \in ApiSources, options \in Options : Compile(src, options)
    \/ \E src \in ApiSources, ctx \in Contexts : Execute(src, ctx)
    \/ \E src \in ApiSources, ctx \in Contexts : ExecuteAsync(src, ctx)
    \/ PromiseReaction

SpecApi == Init /\ [][NextApi]_vars

(***************************************************************************)
(* The front end on one source (specification SpecFront)                   *)
(***************************************************************************)
InitFront ==
    /\ source \in FrontSources
    /\ phase = "fresh" /\ lexed = NoResult /\ parsed = NoResult
    /\ ApiIdle /\ ReplIdle /\ EnvIdle /\ hostBlocked = FALSE

Tokenize ==
    /\ phase = "fresh"
    /\ lexed' = tokenize(source)
    /\ phase' = "lexed"
    /\ UNCHANGED <<source, parsed, hostBlocked, apiVars, replVars, envVars>>

Parse ==
    /\ phase = "lexed" /\ lexed.ok
    /\ parsed' = parse(lexed.tokens)
    /\ phase' = "parsed"
    /\ hostBlocked' = (parsed'.k = "hang")
    /\ UNCHANGED <<source, lexed, apiVars, replVars, envVars>>

NextFront == Tokenize \/ Parse

SpecFront == InitFront /\ [][NextFront]_vars

(***************************************************************************)
(* A chain of Environments (specification SpecEnv)                         *)
(***************************************************************************)
RECURSIVE Depth(_)
Depth(env) == IF env.parent = NoEnv THEN 1 ELSE 1 + Depth(env.parent)

EnvCalled(op, name, value, outcome) ==
    [op |-> op, name |-> name, value |-> value, before |-> environment, outcome |-> outcome]

\* new Environment(environment): a block or a call enters a nested scope.
NewEnvironment ==
    /\ Depth(environment) < MaxDepth
    /\ environment' = Environment(environment)
    /\ envCall' = EnvCalled("new", <<>>, JsUndefined, Return(JsUndefined))
    /\ UNCHANGED <<hostBlocked, frontVars, apiVars, replVars>>

Define(name, value) ==
    /\ environment' = define(environment, name, value)
    /\ envCall' = EnvCalled("define", name, value, Return(JsUndefined))
    /\ UNCHANGED <<hostBlocked, frontVars, apiVars, replVars>>

Get(name) ==
    /\ envCall' = EnvCalled("get", name, JsUndefined, get(environment, name))
    /\ UNCHANGED <<environment, hostBlocked, frontVars, apiVars, replVars>>

Assign(name, value) ==
    /\ envCall' = EnvCalled("assign", name, value,
                            Bind(assign(environment, name, value), LAMBDA r :
                                IF r.k = "throw" THEN r ELSE Return(JsUndefined)))
    /\ environment' = Bind(assign(environment, name, value), LAMBDA r :
                           IF r.k = "throw" THEN environment ELSE r.env)
    /\ UNCHANGED <<hostBlocked, frontVars, apiVars, replVars>>

NextEnv ==
    \/ NewEnvironment
    \/ \E name \in Names, value \in HostValues : Define(name, value)
    \/ \E name \in Names : Get(name)
    \/ \E name \in Names, value \in HostValues : Assign(name, value)

SpecEnv == Init /\ [][NextEnv]_vars

(***************************************************************************)
(* Properties of the compiler API (specification SpecApi)                  *)
(***************************************************************************)
\* An outcome that tells the caller the execution timed out: the error raised,
\* or the reason of the rejected promise, is the timeout error.
IsTimeoutFailure(outcome) ==
    \/ outcome.k = "throw" /\ outcome.err.text = "Execution timeout after"
    \/ /\ outcome.k = "return" /\ outcome.value.t = "promise"
       /\ outcome.value.state = "rejected"
       /\ outcome.value.result.text = "Execution timeout after"

\* C1: execute of a program that uses eval, require, import or a prototype
\* mutation fails with SecurityError.
C1_DenylistedRaisesSecurityError ==
    (apiCall.op = "execute" /\ apiCall.source \in DenylistedSources)
        => (apiCall.outcome.k = "throw" /\ apiCall.outcome.err.name = "SecurityError")

\* C2: with a timeout of 100 ms configured, what the caller of execute or
\* executeAsync observes for a program that loops forever is a timeout failure.
C2_LoopEndsInTimeoutFailure ==
    (/\ apiCall.op \in {"execute", "executeAsync"}
     /\ apiCall.source \in LoopingSources
     /\ apiCall.arg.timeout = 100
     /\ apiCall.observed)
        => IsTimeoutFailure(apiCall.outcome)

\* C6: a source the lexer or the parser rejects makes execute fail with an
\* error of kind SyntaxError, not RuntimeError.
C6_MalformedRaisesSyntaxError ==
    (apiCall.op = "execute" /\ apiCall.source \in MalformedSources)
        => (apiCall.outcome.k = "throw" /\ apiCall.outcome.err.name = "SyntaxError")

\* C7: compile returns for every source, with no error, or with exactly one
\* error message and the empty string as code; warnings is a list.
C7_CompileAlwaysReturns ==
    apiCall.op = "compile"
        => /\ apiCall.outcome.k = "return"
           /\ \/ apiCall.outcome.value.errors = <<>>
              \/ /\ Len(apiCall.outcome.value.errors) = 1
                 /\ apiCall.outcome.value.code = <<>>
           /\ DOMAIN apiCall.outcome.value.warnings = 1..Len(apiCall.outcome.value.warnings)

\* C18: executing `var x = 10; function f(){ var x = 20; return x } print(f());
\* print(x)` completes without error (and prints 20, then 10).
C18_ScopedProgramRuns ==
    (apiCall.op = "execute" /\ apiCall.source = SrcScope)
        => apiCall.outcome.k = "return"

\* The built-in table: the plain names, the namespace names and the helpers each
\* namespace lists.
PlainNames ==
    {<<"p","r","i","n","t">>,
     <<"p","r","i","n","t","l","n">>,
     <<"l","e","n">>,
     <<"p","u","s","h">>,
     <<"p","o","p">>,
     <<"k","e","y","s">>,
     <<"v","a","l","u","e","s">>,
     <<"t","y","p","e">>,
     <<"p","a","r","s","e","I","n","t">>,
     <<"p","a","r","s","e","F","l","o","a","t">>,
     <<"t","o","S","t","r","i","n","g">>}
NamespaceNames == {<<"M","a","t","h">>, <<"S","t","r","i","n","g">>, <<"A","r","r","a","y">>}
HelpersOf(namespace) ==
    CASE namespace = <<"M","a","t","h">> ->
            {<<"r","a","n","d","o","m">>, <<"f","l","o","o","r">>, <<"c","e","i","l">>, <<"r","o","u","n","d">>, <<"a","b","s">>, <<"m","i","n">>, <<"m","a","x">>, <<"p","o","w">>, <<"s","q","r","t">>}
      [] namespace = <<"S","t","r","i","n","g">> ->
            {<<"s","u","b","s","t","r","i","n","g">>, <<"t","o","U","p","p","e","r","C","a","s","e">>, <<"t","o","L","o","w","e","r","C","a","s","e">>, <<"t","r","i","m">>}
      [] namespace = <<"A","r","r","a","y">> ->
            {<<"j","o","i","n">>, <<"r","e","v","e","r","s","e">>, <<"s","o","r","t">>}

KeySet(m) == {m[i][1] : i \in 1..Len(m)}

\* globals holds exactly the built-in table.
IsSeeded(globals) ==
    /\ \A name \in PlainNames :
           get(globals, name) = [k |-> "return", value |-> Builtin(name)]
    /\ \A namespace \in NamespaceNames :
           /\ get(globals, namespace).k = "return"
           /\ get(globals, namespace).value.t = "object"
           /\ KeySet(get(globals, namespace).value.entries)
                  = HelpersOf(namespace)
    /\ KeySet(globals.values) = PlainNames \cup NamespaceNames
    /\ globals.parent = NoEnv

\* execute(src, ctx) compiles src without errors and so reaches `new PLRuntime()`.
ReachesRuntime(src) ==
    Bind(compile(src, [sourceMap |-> FALSE, runtime |-> FALSE]), LAMBDA result :
        result.k = "return" /\ Len(result.value.errors) = 0)

\* C19: constructing a runtime completes without raising and leaves the global
\* Environment seeded with exactly the built-in table: every plain name resolves
\* to its function, every namespace name to an object holding its helpers, and
\* no other name resolves.  Stated where execute constructs the runtime.
C19_RuntimeIsSeeded ==
    (apiCall.op = "execute" /\ ReachesRuntime(apiCall.source))
        => /\ PLRuntimeNew.k = "return"
           /\ IsSeeded(PLRuntimeNew.value.globals)

Fulfils(outcome) == outcome.k = "return" /\ outcome.value.state = "fulfilled"
RejectsWithRuntimeError(outcome) ==
    /\ outcome.k = "return"
    /\ outcome.value.state = "rejected"
    /\ outcome.value.result.name = "RuntimeError"

RECURSIVE Level(_, _)
Level(env, k) == IF k = 0 THEN env ELSE Level(env.parent, k - 1)
Defines(env, name) == \E k \in 0..(Depth(env) - 1) : MapHas(Level(env, k).values, name)
Nearest(env, name) ==
    CHOOSE k \in 0..(Depth(env) - 1) :
        /\ MapHas(Level(env, k).values, name)
        /\ \A j \in 0..(k - 1) : ~MapHas(Level(env, j).values, name)
IsRuntimeError(outcome) == outcome.k = "throw" /\ outcome.err.name = "RuntimeError"

\* C26: in a chain of Environments get(n) returns the value held by the
\* nearest enclosing Environment that defines n, and assign(n, v) updates
\* exactly that Environment and no other; when no Environment up to the root
\* defines n both raise RuntimeError and leave every Environment unchanged;
\* define(n, v) on a child never changes what the parent holds.
C26_NearestEnvironmentWins ==
    /\ envCall.op = "get"
          => /\ environment = envCall.before
             /\ IF Defines(envCall.before, envCall.name)
                THEN envCall.outcome =
                         Return(MapGet(Level(envCall.before,
                                             Nearest(envCall.before, envCall.name)).values,
                                       envCall.name))
                ELSE IsRuntimeError(envCall.outcome)
    /\ envCall.op = "assign"
          => IF Defines(envCall.before, envCall.name)
             THEN /\ envCall.outcome.k = "return"
                  /\ Depth(environment) = Depth(envCall.before)
                  /\ \A k \in 0..(Depth(envCall.before) - 1) :
                         Level(environment, k).values =
                             IF k = Nearest(envCall.before, envCall.name)
                             THEN MapSet(Level(envCall.before, k).values,
                                         envCall.name, envCall.value)
                             ELSE Level(envCall.before, k).values
             ELSE IsRuntimeError(envCall.outcome) /\ environment = envCall.before
    /\ envCall.op = "define"
          => /\ environment.parent = envCall.before.parent
             /\ get(environment, envCall.name) = Return(envCall.value)

\* assign(x, 20) on a child that defines only y, under a root that holds
\* x = 10: the root now holds x = 20 and the child is as it was.
C26_AssignReachesParent ==
    /\ envCall.op = "assign" /\ envCall.name = NameX /\ envCall.value = Num(20, <<>>, 0)
    /\ envCall.before =
           [values |-> << <<NameY, Num(10, <<>>, 0)>> >>,
            parent |-> [values |-> << <<NameX, Num(10, <<>>, 0)>> >>, parent |-> NoEnv]]
    /\ environment =
           [values |-> << <<NameY, Num(10, <<>>, 0)>> >>,
            parent |-> [values |-> << <<NameX, Num(20, <<>>, 0)>> >>, parent |-> NoEnv]]

\* C27: the logical-operator keywords compile to the JavaScript logical
\* operators in every letter case the lexer accepts: `a and b` and `a AND b`
\* to (a && b), `a or b` and `a Or b` to (a || b), `not a` and `NOT a` to the
\* logical negation of a.
C27_LogicalKeywordsInAnyCase ==
    (apiCall.op = "compile" /\ ~apiCall.arg.runtime /\ apiCall.source \in LogicalSources)
        => /\ apiCall.outcome.k = "return"
           /\ apiCall.source \in {SrcAndLower, SrcAndUpper}
                 => apiCall.outcome.value.code = <<"(","a"," ","&","&"," ","b",")",";">>
           /\ apiCall.source \in {SrcOrLower, SrcOrMixed}
                 => apiCall.outcome.value.code = <<"(","a"," ","|","|"," ","b",")",";">>
           /\ apiCall.source \in {SrcNotLower, SrcNotUpper}
                 => apiCall.outcome.value.code = <<"(","!","a",")",";">>

\* text holds part as a run of consecutive characters.
HasPart(text, part) ==
    \E i \in 0..(Len(text) - Len(part)) : SubSeq(text, i + 1, i + Len(part)) = part

\* C28: the transpiler preserves the grouping of the AST: an operand that is a
\* compound expression is emitted so that the JavaScript text groups as the
\* tree does.  The tree of `(a = 1) + 2` is emitted as an addition whose left
\* operand is the whole assignment, and the conditional that is the left
\* operand of `(a if b c) + 2` stays one operand: the operand is parenthesised.
C28_OperandsKeepTheirGrouping ==
    (apiCall.op = "compile" /\ ~apiCall.arg.runtime /\ apiCall.source \in GroupingSources)
        => /\ apiCall.outcome.k = "return"
           /\ apiCall.outcome.value.errors = <<>>
           /\ apiCall.source = SrcAssignPlus
                 => HasPart(apiCall.outcome.value.code, <<"(","a"," ","="," ","1",")">>)
           /\ apiCall.source = SrcConditionalPlus
                 => HasPart(apiCall.outcome.value.code,
                            <<"(","b"," ","?"," ","c"," ",":"," ","a",")">>)

\* The value a JavaScript double-quoted string literal denotes: text[i..] is the
\* rest of the literal after its opening quote, value what was read so far.  A
\* quote before the end of text, a line break inside the literal or a missing
\* closing quote make text something other than one string literal.
\* "<BS>" stands for the backspace character.
RECURSIVE JsStringBody(_, _, _)
JsStringBody(text, i, value) ==
    IF i > Len(text) THEN [ok |-> FALSE]
    ELSE IF text[i] = "\"" THEN (IF i = Len(text) THEN [ok |-> TRUE, value |-> value]
                                  ELSE [ok |-> FALSE])
    ELSE IF text[i] \in {"\n", "\r"} THEN [ok |-> FALSE]
    ELSE IF text[i] = "\\"
    THEN (IF i = Len(text) THEN [ok |-> FALSE]
          ELSE JsStringBody(text, i + 2,
                            Append(value, CASE text[i + 1] = "n" -> "\n"
                                            [] text[i + 1] = "t" -> "\t"
                                            [] text[i + 1] = "r" -> "\r"
                                            [] text[i + 1] = "b" -> "<BS>"
                                            [] OTHER -> text[i + 1])))
    ELSE JsStringBody(text, i + 1, Append(value, text[i]))
JsStringLiteral(text) ==
    IF Len(text) >= 2 /\ text[1] = "\"" THEN JsStringBody(text, 2, <<>>) ELSE [ok |-> FALSE]

\* C29: string literals survive compilation: the JavaScript literal emitted
\* for a string literal denotes exactly the value the lexer produced from it,
\* also when the value holds a double quote, a backslash or a newline, and the
\* emitted statement is that literal and nothing else.
C29_StringLiteralDenotesItsValue ==
    (apiCall.op = "compile" /\ ~apiCall.arg.runtime /\ apiCall.source \in StringSources)
        => /\ apiCall.outcome.k = "return"
           /\ apiCall.outcome.value.errors = <<>>
           /\ apiCall.outcome.value.code # <<>>
           /\ apiCall.outcome.value.code[Len(apiCall.outcome.value.code)] = ";"
           /\ JsStringLiteral(SubSeq(apiCall.outcome.value.code, 1,
                                     Len(apiCall.outcome.value.code) - 1))
                  = [ok |-> TRUE, value |-> tokenize(apiCall.source).tokens[1].value.s]

(***************************************************************************)
(* Properties of the REPL sessions (specification Spec)                    *)
(***************************************************************************)
\* What a session's own operations alone produce, from a fresh session: the
\* history, the bindings and the result of the last operation.
RECURSIVE ReplayHistory(_), ReplayContext(_)
ReplayHistory(log) ==
    IF log = <<>> THEN <<>>
    ELSE Bind(log[Len(log)], LAMBDA e :
         Bind(ReplayHistory(SubSeq(log, 1, Len(log) - 1)), LAMBDA h :
             CASE e.op \in {"evaluate", "evaluateAsync"} -> Append(h, e.input)
               [] e.op = "clearHistory" -> <<>>
               [] OTHER -> h))

ReplayContext(log) ==
    IF log = <<>> THEN <<>>
    ELSE Bind(log[Len(log)], LAMBDA e :
         Bind(ReplayContext(SubSeq(log, 1, Len(log) - 1)), LAMBDA c :
             CASE e.op = "setVariable" -> MapSet(c, e.name, e.value)
               [] e.op = "clearContext" -> <<>>
               [] OTHER -> c))

ReplayLast(log) ==
    IF log = <<>> THEN NoResult
    ELSE Bind(log[Len(log)], LAMBDA e :
         Bind(SubSeq(log, 1, Len(log) - 1), LAMBDA before :
             CASE e.op = "evaluate" -> evaluate(e.input, ReplayContext(before))
               [] e.op = "evaluateAsync" -> evaluateAsync(e.input, ReplayContext(before))
               [] e.op = "getVariable" ->
                    Return(IF MapHas(ReplayContext(before), e.name)
                           THEN MapGet(ReplayContext(before), e.name) ELSE JsUndefined)
               [] e.op = "getHistory" -> Return(ReplayHistory(before))
               [] OTHER -> Return(JsUndefined)))

C4_LaterEvaluateSeesDeclaration ==
    \A s \in Sessions :
        oplog[s] = <<[op |-> "evaluate", input |-> SrcVarX10],
                     [op |-> "evaluate", input |-> SrcX]>>
            => /\ last[s].k = "return"
               /\ last[s].value.errors = <<>>
               /\ last[s].value.output = Num(10, <<>>, 0)

\* C5: evaluate returns an {output, errors} value for every input, with output
\* null when errors is non-empty, and the session goes on serving calls.
C5_EvaluateAlwaysReturns ==
    \A s \in Sessions :
        (oplog[s] # <<>> /\ oplog[s][Len(oplog[s])].op = "evaluate")
            => /\ last[s].k = "return"
               /\ (last[s].value.errors # <<>> => last[s].value.output = Null)
               /\ ~hostBlocked

\* The inputs passed to evaluate / evaluateAsync in log since its last
\* clearHistory, in call order.
LastClear(log) ==
    IF \E i \in 1..Len(log) : log[i].op = "clearHistory"
    THEN CHOOSE i \in 1..Len(log) :
             /\ log[i].op = "clearHistory"
             /\ \A j \in (i + 1)..Len(log) : log[j].op # "clearHistory"
    ELSE 0
EvaluationsSinceClear(log) ==
    SelectSeq(SubSeq(log, LastClear(log) + 1, Len(log)),
              LAMBDA e : e.op \in {"evaluate", "evaluateAsync"})
InputsSinceClear(log) ==
    [i \in 1..Len(EvaluationsSinceClear(log)) |-> EvaluationsSinceClear(log)[i].input]

\* C20: the session history is append-only and ordered: after any sequence of
\* evaluate, evaluateAsync, setVariable, getVariable and clearContext calls,
\* getHistory() is the sequence of the inputs passed to evaluate / evaluateAsync
\* since the last clearHistory, in call order, one entry per call whether or not
\* the evaluation succeeded; a getHistory call returns that sequence.
C20_HistoryIsInputsSinceClear ==
    \A s \in Sessions :
        /\ getHistory(history, s) = InputsSinceClear(oplog[s])
        /\ (oplog[s] # <<>> /\ oplog[s][Len(oplog[s])].op = "getHistory")
               => last[s] = Return(InputsSinceClear(oplog[s]))

\* Session 1 evaluated `1 +` (which fails), then evaluated `x` asynchronously,
\* then asked for its history: it got both inputs, in that order.
C20_FailedAndAsyncRecorded ==
    /\ oplog[1] = <<[op |-> "evaluate", input |-> SrcBadExpr],
                    [op |-> "evaluateAsync", input |-> SrcX],
                    [op |-> "getHistory"]>>
    /\ last[1] = Return(<<SrcBadExpr, SrcX>>)

\* C21: a binding pre-seeded with setVariable(n, v) is the session's binding
\* for n: while it is held, getVariable(n) returns v, and an evaluate of the
\* identifier n on that session runs without error and observes v.
C21_SeededBindingIsObserved ==
    \A s \in Sessions :
        (oplog[s] # <<>> /\ MapHas(context[s], NameX))
            => /\ (oplog[s][Len(oplog[s])] = [op |-> "getVariable", name |-> NameX]
                      => last[s] = Return(MapGet(context[s], NameX)))
               /\ (oplog[s][Len(oplog[s])] = [op |-> "evaluate", input |-> SrcX]
                      => /\ last[s].k = "return"
                         /\ last[s].value.errors = <<>>
                         /\ last[s].value.output = MapGet(context[s], NameX))

\* C22: clearContext and clearHistory are independent: a clearContext call
\* leaves getVariable(n) undefined for every n and getHistory() as it was; a
\* clearHistory call leaves the history empty and getVariable(n) as it was for
\* every n.
C22_ClearsAreIndependent ==
    [][\A s \in Sessions :
          /\ oplog'[s] = Append(oplog[s], [op |-> "clearContext"])
                => /\ \A n \in Names : getVariable(context', s, n) = JsUndefined
                   /\ getHistory(history', s) = getHistory(history, s)
          /\ oplog'[s] = Append(oplog[s], [op |-> "clearHistory"])
                => /\ getHistory(history', s) = <<>>
                   /\ \A n \in Names :
                          getVariable(context', s, n) = getVariable(context, s, n)]_vars

\* Session 1 bound x, evaluated `x` and then cleared its context: no binding is
\* left and the history still holds the input.
C22_ContextClearedHistoryKept ==
    /\ oplog[1] = <<[op |-> "setVariable", name |-> NameX, value |-> Num(10, <<>>, 0)],
                    [op |-> "evaluate", input |-> SrcX],
                    [op |-> "clearContext"]>>
    /\ \A n \in Names : getVariable(context, 1, n) = JsUndefined
    /\ getHistory(history, 1) = <<SrcX>>

(***************************************************************************)
(* Properties of the front end (specification SpecFront)                   *)
(***************************************************************************)
Whitespace == {" ", "\t", "\r", "\n"}
IsWhitespaceOnly(src) == \A i \in 1..Len(src) : src[i] \in Whitespace

EOFCount(tokens) == Cardinality({i \in 1..Len(tokens) : tokens[i].type = "EOF"})

\* One-character statements (x or 1), each followed by one or more newlines.
IsStatementLines(src) ==
    /\ Len(src) >= 2
    /\ src[1] \in {"x", "1"} /\ src[Len(src)] = "\n"
    /\ \A i \in 1..Len(src) : src[i] \in {"x", "1", "\n"}
    /\ \A i \in 1..(Len(src) - 1) : src[i] = "\n" \/ src[i + 1] = "\n"
StatementCount(src) == Cardinality({i \in 1..Len(src) : src[i] # "\n"})

\* C8: the token sequence tokenize returns holds exactly one EOF token, and it
\* is the last one.
C8_ExactlyOneEOF ==
    (phase \in {"lexed", "parsed"} /\ lexed.ok)
        => /\ EOFCount(lexed.tokens) = 1
           /\ lexed.tokens[Len(lexed.tokens)].type = "EOF"

\* C9: for a source made only of whitespace, tokenize yields no token other
\* than EOF and parse returns a Program with no statement.
C9_WhitespaceIsEmptyProgram ==
    (phase = "parsed" /\ IsWhitespaceOnly(source))
        => /\ \A i \in 1..Len(lexed.tokens) : lexed.tokens[i].type = "EOF"
           /\ parsed.k = "ok"
           /\ parsed.node.type = "Program" /\ parsed.node.body = <<>>

\* C10: n statements each followed by newlines parse to a Program of those n
\* statements, and a function body with one statement per line and the closing
\* brace on its own line parses to a Block of those statements.
C10_NewlinesOnlyTerminate ==
    /\ (phase = "parsed" /\ IsStatementLines(source))
           => (parsed.k = "ok" /\ Len(parsed.node.body) = StatementCount(source))
    /\ (phase = "parsed" /\ source = SrcFunctionLines)
           => /\ parsed.k = "ok"
              /\ parsed.node.body[1].type = "FunctionDeclaration"
              /\ parsed.node.body[1].body.type = "Block"
              /\ Len(parsed.node.body[1].body.body) = 2

\* A node of type Block holding exactly n statements.
IsBlockOf(node, n) == node.type = "Block" /\ Len(node.body) = n

\* C11: a brace-delimited body after if (...), else or while (...) parses as a
\* Block holding the statements between the braces.
C11_BracedBodyIsBlock ==
    /\ (phase = "parsed" /\ source \in {SrcIfBlock, SrcIfElseBlock})
           => /\ parsed.k = "ok"
              /\ parsed.node.body[1].type = "IfStatement"
              /\ IsBlockOf(parsed.node.body[1].consequent, 1)
              /\ (source = SrcIfElseBlock => IsBlockOf(parsed.node.body[1].alternate, 1))
    /\ (phase = "parsed" /\ source = SrcWhileBlock)
           => /\ parsed.k = "ok"
              /\ parsed.node.body[1].type = "WhileStatement"
              /\ IsBlockOf(parsed.node.body[1].body, 1)

\* C12: the three clauses of a for statement are optional and the init clause
\* may be a declaration or an expression: `for (var i = 0; i < 10; i = i + 1) x`
\* and `for (i = 0; i < 10; i = i + 1) x` parse to a ForStatement holding the
\* declaration (or the assignment), the comparison and the assignment, and
\* `for (;;) x` parses with all three clauses absent.
C12_ForClauses ==
    /\ (phase = "parsed" /\ source \in {SrcForDeclaration, SrcForExpression})
           => /\ parsed.k = "ok"
              /\ parsed.node.body[1].type = "ForStatement"
              /\ parsed.node.body[1].init.type =
                     (IF source = SrcForDeclaration THEN "VariableDeclaration"
                      ELSE "AssignmentExpression")
              /\ parsed.node.body[1].test.type = "BinaryExpression"
              /\ parsed.node.body[1].update.type = "AssignmentExpression"
    /\ (phase = "parsed" /\ source = SrcForEmpty)
           => /\ parsed.k = "ok"
              /\ parsed.node.body[1].type = "ForStatement"
              /\ parsed.node.body[1].init = Undefined
              /\ parsed.node.body[1].test = Undefined
              /\ parsed.node.body[1].update = Undefined

\* C13: one bare parameter identifier, `->` and a block or an expression parse
\* to one ArrowFunctionExpression with that one parameter and that body.
C13_ArrowFunction ==
    (phase = "parsed" /\ source \in {SrcArrowExpression, SrcArrowBlock})
        => /\ parsed.k = "ok"
           /\ Len(parsed.node.body) = 1
           /\ parsed.node.body[1].expression.type = "ArrowFunctionExpression"
           /\ Len(parsed.node.body[1].expression.params) = 1
           /\ parsed.node.body[1].expression.params[1].name = Str(<<"x">>)
           /\ parsed.node.body[1].expression.body.type =
                  (IF source = SrcArrowBlock THEN "Block" ELSE "BinaryExpression")

\* C14: the sources true, false and null parse to Literal nodes whose values
\* are the boolean true, the boolean false and null.
C14_KeywordLiterals ==
    (phase = "parsed" /\ source \in {SrcTrue, SrcFalse, SrcNull})
        => /\ parsed.k = "ok"
           /\ parsed.node.body[1].expression.type = "Literal"
           /\ parsed.node.body[1].expression.value =
                  (CASE source = SrcTrue -> Bool(TRUE)
                     [] source = SrcFalse -> Bool(FALSE)
                     [] source = SrcNull -> Null)

\* The expression of the only statement of a parsed program, and the shapes of
\* the tree of `a op1 b op2 c`.
ExprOf(result) == result.node.body[1].expression
IsOp(node, op) ==
    node.type \in {"BinaryExpression", "LogicalExpression", "AssignmentExpression"}
        /\ node.operator = Str(op)
IsName(node, n) == node.type = "Identifier" /\ node.name = Str(<<n>>)
\* op1(a, op2(b, c))
RightLeaning(e, op1, op2) ==
    /\ IsOp(e, op1) /\ IsName(e.left, "a")
    /\ IsOp(e.right, op2) /\ IsName(e.right.left, "b") /\ IsName(e.right.right, "c")
\* op2(op1(a, b), c)
LeftLeaning(e, op1, op2) ==
    /\ IsOp(e, op2) /\ IsName(e.right, "c")
    /\ IsOp(e.left, op1) /\ IsName(e.left.left, "a") /\ IsName(e.left.right, "b")

\* C15: for binary operators of two different levels, `a op1 b op2 c` groups
\* around the looser operator: op1(a, op2(b, c)) when op2 binds tighter and
\* op2(op1(a, b), c) when op1 binds tighter.
C15_PrecedenceGrouping ==
    \A o1, o2 \in BinaryOperators :
        (phase = "parsed" /\ source = SrcChain(o1, o2) /\ LevelOf(o1) # LevelOf(o2))
            => /\ parsed.k = "ok" /\ Len(parsed.node.body) = 1
               /\ IF LevelOf(o1) < LevelOf(o2)
                  THEN RightLeaning(ExprOf(parsed), o1, o2)
                  ELSE LeftLeaning(ExprOf(parsed), o1, o2)

\* `a + b * c` has been parsed to the `+` node whose right child is the `*` node.
C15_PlusOverTimes ==
    /\ phase = "parsed" /\ source = SrcChain(<<"+">>, <<"*">>)
    /\ parsed.k = "ok"
    /\ RightLeaning(ExprOf(parsed), <<"+">>, <<"*">>)

\* C16: a chain of two binary operators of one level parses to the left-leaning
\* tree op2(op1(a, b), c); a chain of assignment operators and a chain of power
\* operators parse to the right-leaning tree op1(a, op2(b, c)).
C16_Associativity ==
    /\ \A o1, o2 \in BinaryOperators :
           (phase = "parsed" /\ source = SrcChain(o1, o2) /\ LevelOf(o1) = LevelOf(o2))
               => /\ parsed.k = "ok" /\ Len(parsed.node.body) = 1
                  /\ LeftLeaning(ExprOf(parsed), o1, o2)
    /\ \A o1, o2 \in AssignmentOperators \cup {PowerOperator} :
           (phase = "parsed" /\ source = SrcChain(o1, o2))
               => /\ parsed.k = "ok" /\ Len(parsed.node.body) = 1
                  /\ RightLeaning(ExprOf(parsed), o1, o2)

\* `a - b - c` has been parsed to the left-leaning tree (a - b) - c.
C16_MinusChainLeansLeft ==
    /\ phase = "parsed" /\ source = SrcChain(<<"-">>, <<"-">>)
    /\ parsed.k = "ok"
    /\ LeftLeaning(ExprOf(parsed), <<"-">>, <<"-">>)

\* C17: every failure of parse reports the line and the column of the
\* offending token.
C17_ParseErrorHasLineAndColumn ==
    (phase = "parsed" /\ parsed.k = "err")
        => (parsed.err.line >= 1 /\ parsed.err.column >= 1)

\* C24: parse terminates on every token sequence that ends in EOF: it returns
\* a Program or raises an error; this includes a switch whose braces hold a
\* token that is neither case, default nor `}`, such as a newline after `{`.
C24_ParseTerminates ==
    phase = "parsed" => parsed.k \in {"ok", "err"}

\* The 1-based line and column of the character at offset off (1-based) of src.
LineOf(src, off) == 1 + Cardinality({i \in 1..(off - 1) : src[i] = "\n"})
ColumnOf(src, off) ==
    off - (IF \E i \in 1..(off - 1) : src[i] = "\n"
           THEN CHOOSE i \in 1..(off - 1) :
                    src[i] = "\n" /\ \A j \in (i + 1)..(off - 1) : src[j] # "\n"
           ELSE 0)
\* The characters a token of that type can start with.
StartsToken(type, c) ==
    CASE type = "STRING" -> c \in {"\"", "'"}
      [] type = "NEWLINE" -> c = "\n"
      [] OTHER -> c \notin {" ", "\t", "\r", "\n"}

\* C25: every token's (line, column) is the 1-based line and column of the
\* token's first character in the source, also for tokens that follow a string
\* literal with escape sequences on the same line: the position names a
\* character of the source that a token of that type starts with.
C25_TokenPositionIsFirstCharacter ==
    (phase \in {"lexed", "parsed"} /\ lexed.ok)
        => \A k \in 1..Len(lexed.tokens) :
               lexed.tokens[k].type # "EOF"
                   => \E off \in 1..Len(source) :
                          /\ LineOf(source, off) = lexed.tokens[k].line
                          /\ ColumnOf(source, off) = lexed.tokens[k].column
                          /\ StartsToken(lexed.tokens[k].type, source[off])

\* The nodes directly under node in the AST (Undefined where a child is absent).
Elems(seq) == {seq[i] : i \in DOMAIN seq}
ChildNodes(node) ==
    CASE node.type \in {"Program", "Block"} -> Elems(node.body)
      [] node.type = "ExpressionStatement" -> {node.expression}
      [] node.type \in {"IfStatement", "ConditionalExpression"} ->
             {node.test, node.consequent, node.alternate}
      [] node.type = "WhileStatement" -> {node.test, node.body}
      [] node.type = "ForStatement" -> {node.init, node.test, node.update, node.body}
      [] node.type = "ReturnStatement" -> {node.argument}
      [] node.type = "VariableDeclaration" ->
             UNION {{d.id, d.init} : d \in Elems(node.declarations)}
      [] node.type = "FunctionDeclaration" -> {node.id, node.body} \cup Elems(node.params)
      [] node.type = "SwitchStatement" -> {node.discriminant} \cup Elems(node.cases)
      [] node.type = "CaseStatement" -> {node.test} \cup Elems(node.consequent)
      [] node.type \in {"BinaryExpression", "LogicalExpression", "AssignmentExpression"} ->
             {node.left, node.right}
      [] node.type = "UnaryExpression" -> {node.argument}
      [] node.type = "CallExpression" -> {node.callee} \cup Elems(node.arguments)
      [] node.type = "MemberExpression" -> {node.object, node.property}
      [] node.type = "ArrayExpression" -> Elems(node.elements)
      [] node.type = "ObjectExpression" -> Elems(node.properties)
      [] node.type = "Property" -> {node.key, node.value}
      [] node.type = "ArrowFunctionExpression" -> {node.body} \cup Elems(node.params)
      [] OTHER -> {}

RECURSIVE PositionsValid(_)
PositionsValid(node) ==
    \/ node = Undefined
    \/ /\ node.line >= 1 /\ node.column >= 1
       /\ \A child \in ChildNodes(node) : PositionsValid(child)

\* C30: source positions are always valid: every token returned by tokenize
\* and every node of every AST returned by parse(tokenize(source)), the Program
\* node and nodes whose position is copied from a child or from a closing
\* delimiter included, has line >= 1 and column >= 1.
C30_PositionsAreValid ==
    /\ (phase \in {"lexed", "parsed"} /\ lexed.ok)
           => \A k \in 1..Len(lexed.tokens) :
                  lexed.tokens[k].line >= 1 /\ lexed.tokens[k].column >= 1
    /\ (phase = "parsed" /\ parsed.k = "ok") => PositionsValid(parsed.node)

\* `[1]` was parsed: the ArrayExpression takes its position from the closing
\* bracket (column 3), the statement takes it from the expression.
C30_ArrayPositionedAtBracket ==
    /\ phase = "parsed" /\ source = SrcArrayLiteral /\ parsed.k = "ok"
    /\ ExprOf(parsed).type = "ArrayExpression"
    /\ ExprOf(parsed).line = 1 /\ ExprOf(parsed).column = 3
    /\ parsed.node.body[1].column = 3
    /\ ExprOf(parsed).elements[1].column = 2

====
